---------------------------- MODULE Spec2Model ----------------------------
(***************************************************************************)
(* Naming resolution and service-discovery watch layer of deixis/spine,    *)
(* as vendored by deixis/errors:                                           *)
(*   - the one-shot watchers (passthrough, IP literal),                    *)
(*   - the snapshot Diff engine,                                           *)
(*   - the polling DNS watcher,                                            *)
(*   - the local discovery agent and its subscription watchers.            *)
(* Each component has its own next-state relation and specification; the   *)
(* variables of the other components stay unchanged under it.              *)
(***************************************************************************)
EXTENDS Integers, Sequences, FiniteSets, TLC

VARIABLES
    pt,        \* passThroughWatcher: [st, updateChan, panic]
    ptRet,     \* what the last passThroughWatcher.Next returned
    ip,        \* ipWatcher: [st, updateChan, panic]
    ipRet,     \* what the last ipWatcher.Next returned
    dm,        \* Diff.m: the snapshot, instance ID -> Instance
    dArg,      \* the state handed to the last Diff.Apply
    dEvents,   \* the events the last Diff.Apply returned
    dnsW,      \* dnsWatcher: [st, port], st = "none" before Resolve
    curAddrs,  \* dnsWatcher.curAddrs: the latest resolved address set
    timer,     \* dnsWatcher.t: [run, left, tick]
    ctxDone,   \* whether dnsWatcher.ctx.Done() is closed
    dnsPc,     \* where the caller of dnsWatcher.Next is: idle, select, lookup
    dnsRet,    \* what the last dnsWatcher.Next returned
    dnsHist,   \* dnsWatcher: what the polls so far did and what the caller holds
               \* of updates, and how many Next calls returned updates
    Registry,  \* agent.Registry: instance ID -> Instance
    Subs,      \* agent.Subs: the subscribed channels, named by their watcher
    mu,        \* agent.mu: "free" or "locked" (held for writing)
    call,      \* the Register, Deregister or Leave call that holds agent.mu
    agRet,     \* what the last call on the agent returned
    svcH,      \* the Service value a client holds from agent.Service
    lw,        \* the watchers made by Service.Watch: [st, sub, closing, panic, name],
               \* name being the service whose Watch made the watcher
    lwRet,     \* what the last watcher.Next returned, and on which watcher
    agPanic,   \* a broadcast sent on a closed channel
    calls,     \* how many calls on the agent, its services and watchers were made
    adInstances, \* discoWatcher.instances: nil, or instance ID -> Instance
    adSrc,     \* the instances the discovery back end of discoWatcher.w holds
    adKnown,   \* instance ID -> the address discoWatcher last announced by an Add
    adEvents,  \* the events discoWatcher.w.Next returned in the step to this state
    adClosed,  \* whether discoWatcher.w was closed
    adRet,     \* what the last discoWatcher.Next returned
    adApplied, \* the address set of a caller that applied every update returned
    builders,  \* naming: the scheme table, scheme -> Builder
    defaultScheme, \* naming: the scheme of a URI that has none
    nmRet,     \* what the last naming.Register or naming.Resolve did
    gwIn,      \* grpc watcher: what the wrapped Next handed over
    gwClosed,  \* grpc watcher: Close was passed on to the wrapped watcher
    gwRet,     \* grpc watcher: what the last Next returned
    drain,     \* bg: Reg.drain
    jobs,      \* bg: the keys of Reg.jobs
    started,   \* bg: per job, what its status.started channel holds
    jobPc,     \* bg: per job, where the goroutine of Dispatch stands
    drainPc,   \* bg: where Drain stands
    ranged,    \* bg: the jobs the range of Drain has yielded
    stopper,   \* bg: per job, where the goroutine of Drain stands
    wg,        \* bg: the counter of the WaitGroup of Drain
    crashed,   \* bg: the runtime ended the process
    bgRet,     \* bg: what the last Dispatch or Drain call returned
    erIn,      \* errors: the error last handed to a Pack
    erGrpc,    \* errors: what grpcerrors.pack made of it
    erHttp,    \* errors: what httperrors.pack made of it
    erOut,     \* errors: what grpcerrors.Unpack made of the gRPC status
    cdMu,      \* Diff under concurrent callers: the holder of Diff.mu, or 0
    cdM,       \* Diff under concurrent callers: Diff.m
    cdProc,    \* per caller of Apply: where it stands and its locals
    cdRet      \* what the Apply that returned in the last step returned

oneShotVars == <<pt, ptRet, ip, ipRet>>
diffVars == <<dm, dArg, dEvents>>
dnsVars == <<dnsW, curAddrs, timer, ctxDone, dnsPc, dnsRet, dnsHist>>
agentVars == <<Registry, Subs, mu, call, agRet, svcH, lw, lwRet, agPanic, calls>>
adapterVars == <<adInstances, adSrc, adKnown, adEvents, adClosed, adRet, adApplied>>
namingVars == <<builders, defaultScheme, nmRet>>
grpcVars == <<gwIn, gwClosed, gwRet>>
bgVars == <<drain, jobs, started, jobPc, drainPc, ranged, stopper, wg, crashed, bgRet>>
errVars == <<erIn, erGrpc, erHttp, erOut>>
cdVars == <<cdMu, cdM, cdProc, cdRet>>
vars == <<oneShotVars, diffVars, dnsVars, agentVars, adapterVars, namingVars, grpcVars, bgVars, errVars, cdVars>>

----------------------------------------------------------------------------
(* Shared vocabulary *)

\* naming.Operation of an address Update
Add == "Add"
Delete == "Delete"
\* disco.Operation has a third value
Update == "Update"

NilErr == "nil"
ErrWatcherClosed == "watcher closed"
\* no call has returned yet
NoErr == "none"

NoRet == [upd |-> <<>>, err |-> NoErr]
ClosedRet == [upd |-> <<>>, err |-> ErrWatcherClosed]
OkRet(us) == [upd |-> us, err |-> NilErr]

\* Go maps: a function whose domain is the set of keys
EmptyMap == [k \in {} |-> TRUE]
MapPut(m, k, v) == [x \in (DOMAIN m) \cup {k} |-> IF x = k THEN v ELSE m[x]]
MapDel(m, k) == [x \in (DOMAIN m) \ {k} |-> m[x]]

\* every ordering of a finite set, as sequences without repetition
Perms(S) ==
    {f \in [1..Cardinality(S) -> S] : \A i, j \in 1..Cardinality(S) : f[i] = f[j] => i = j}

RECURSIVE SeqToSet(_)
SeqToSet(s) == IF s = <<>> THEN {} ELSE {Head(s)} \cup SeqToSet(Tail(s))

----------------------------------------------------------------------------
(* Go channels of capacity ChanCap *)

\* make(chan *Update, 1), make(chan *Event, 1)
ChanCap == 1

ChanMake == [buf |-> <<>>, closed |-> FALSE]
\* a send proceeds when the buffer has room (a send on a closed channel panics)
ChanCanSend(c) == Len(c.buf) < ChanCap
ChanSend(c, v) == [c EXCEPT !.buf = Append(c.buf, v)]
\* a variant of the receive that leaves the value in the buffer
ChanPeek(c) == c

\* a receive proceeds when a value is buffered or the channel is closed;
\* buffered values are delivered before the closed signal
ChanCanRecv(c) == c.buf # <<>> \/ c.closed
ChanRecvOk(c) == c.buf # <<>>
ChanAfterRecv(c) == [c EXCEPT !.buf = IF c.buf # <<>> THEN Tail(c.buf) ELSE <<>>]
ChanClose(c) == [c EXCEPT !.closed = TRUE]

----------------------------------------------------------------------------
(* IP literals: net.ParseIP and formatIP *)

V4Literals == {"10.0.0.1", "10.0.0.2"}
V6Literals == {"::1"}
ParseIPOk(s) == s \in V4Literals \cup V6Literals

\* formatIP: IPv4 as is, IPv6 in square brackets, anything else not ok
formatIP(addr) ==
    IF ~ParseIPOk(addr) THEN [ip |-> "", ok |-> FALSE]
    ELSE IF addr \in V4Literals THEN [ip |-> addr, ok |-> TRUE]
    ELSE [ip |-> "[" \o addr \o "]", ok |-> TRUE]

----------------------------------------------------------------------------
(* One-shot watchers: passthrough and IP literal *)

\* targets handed to the passthrough resolver
PtTargets == {"myservice", "passthrough://myservice", "host:80"}
\* (host, port) pairs parseTarget yields for IP-literal targets
IpTargets == {[host |-> "10.0.0.1", port |-> "443"],
              [host |-> "10.0.0.1", port |-> "80"],
              [host |-> "::1", port |-> "443"],
              [host |-> "::1", port |-> "80"]}

NoWatcher == [st |-> "none", updateChan |-> ChanMake, panic |-> FALSE]

\* passThroughResolver.Resolve
PtResolve(target) ==
    /\ pt.st = "none"
    /\ pt' = [st |-> "live",
              updateChan |-> ChanSend(ChanMake, [Op |-> Add, Addr |-> target]),
              panic |-> FALSE]
    /\ UNCHANGED <<ptRet, ip, ipRet>>
    /\ UNCHANGED <<diffVars, dnsVars, agentVars, adapterVars, namingVars, grpcVars, bgVars, errVars, cdVars>>

\* the shared body of passThroughWatcher.Next and ipWatcher.Next
OneShotNextRet(w) ==
    IF ChanRecvOk(w.updateChan) THEN OkRet(<<Head(w.updateChan.buf)>>) ELSE ClosedRet

\* passThroughWatcher.Next
PtNext ==
    /\ pt.st = "live" /\ ~pt.panic
    /\ ChanCanRecv(pt.updateChan)
    /\ ptRet' = OneShotNextRet(pt)
    /\ pt' = [pt EXCEPT !.updateChan = ChanAfterRecv(@)]
    /\ UNCHANGED <<ip, ipRet>>
    /\ UNCHANGED <<diffVars, dnsVars, agentVars, adapterVars, namingVars, grpcVars, bgVars, errVars, cdVars>>

\* close(updateChan): closing a closed channel panics
OneShotClose(w) ==
    IF w.updateChan.closed
    THEN [w EXCEPT !.panic = TRUE]
    ELSE [w EXCEPT !.updateChan = ChanClose(@)]

\* passThroughWatcher.Close
PtClose ==
    /\ pt.st = "live" /\ ~pt.panic
    /\ pt' = OneShotClose(pt)
    /\ UNCHANGED <<ptRet, ip, ipRet>>
    /\ UNCHANGED <<diffVars, dnsVars, agentVars, adapterVars, namingVars, grpcVars, bgVars, errVars, cdVars>>

\* dnsResolver.Resolve, the branch for a host that is an IP literal
IpResolve(t) ==
    /\ ip.st = "none"
    /\ ParseIPOk(t.host)
    /\ ip' = [st |-> "live",
              updateChan |-> ChanSend(ChanMake,
                  [Op |-> Add, Addr |-> formatIP(t.host).ip \o ":" \o t.port]),
              panic |-> FALSE]
    /\ UNCHANGED <<pt, ptRet, ipRet>>
    /\ UNCHANGED <<diffVars, dnsVars, agentVars, adapterVars, namingVars, grpcVars, bgVars, errVars, cdVars>>

\* ipWatcher.Next
IpNext ==
    /\ ip.st = "live" /\ ~ip.panic
    /\ ChanCanRecv(ip.updateChan)
    /\ ipRet' = OneShotNextRet(ip)
    /\ ip' = [ip EXCEPT !.updateChan = ChanAfterRecv(@)]
    /\ UNCHANGED <<pt, ptRet>>
    /\ UNCHANGED <<diffVars, dnsVars, agentVars, adapterVars, namingVars, grpcVars, bgVars, errVars, cdVars>>

\* ipWatcher.Close
IpClose ==
    /\ ip.st = "live" /\ ~ip.panic
    /\ ip' = OneShotClose(ip)
    /\ UNCHANGED <<pt, ptRet, ipRet>>
    /\ UNCHANGED <<diffVars, dnsVars, agentVars, adapterVars, namingVars, grpcVars, bgVars, errVars, cdVars>>

OneShotInit ==
    /\ pt = NoWatcher
    /\ ptRet = NoRet
    /\ ip = NoWatcher
    /\ ipRet = NoRet

OneShotNext ==
    \/ \E target \in PtTargets : PtResolve(target)
    \/ PtNext
    \/ PtClose
    \/ \E t \in IpTargets : IpResolve(t)
    \/ IpNext
    \/ IpClose

----------------------------------------------------------------------------
(* Diff engine *)

MaxState == 2

DiffIDs == {"a", "b", "c"}
DiffHosts == {"10.0.0.1", "10.0.0.2"}
DiffInstance(id, host) ==
    [Local |-> FALSE, ID |-> id, Name |-> "S", Host |-> host, Port |-> 8080, Tags |-> <<>>]
DiffInstances == {DiffInstance(id, h) : id \in DiffIDs, h \in DiffHosts}
\* the states a caller may hand to Apply: any instances, IDs possibly repeated
DiffStates == UNION {[1..n -> DiffInstances] : n \in 0..MaxState}

Event(op, inst) == [Op |-> op, Instance |-> inst]

\* a variant that applies the TODO of Diff.Apply: no Update for an unchanged instance
ApplyEventIfChanged(m, inst) ==
    IF inst.ID \notin DOMAIN m THEN <<Event(Add, inst)>>
    ELSE IF m[inst.ID] = inst THEN <<>>
    ELSE <<Event(Update, inst)>>

\* Diff.Apply, body of the first loop: the event for one instance of the new state
ApplyEvent(m, inst) ==
    IF inst.ID \notin DOMAIN m THEN <<Event(Add, inst)>> ELSE <<Event(Update, inst)>>

\* Diff.Apply, the first loop: added/updated state, in the order of `state`
RECURSIVE ApplyScan(_, _, _)
ApplyScan(m, state, events) ==
    IF state = <<>> THEN [m |-> m, events |-> events]
    ELSE LET inst == Head(state)
         IN ApplyScan(MapPut(m, inst.ID, inst), Tail(state), events \o ApplyEvent(m, inst))

\* Diff.Apply, the set `running`
Running(state) == {state[i].ID : i \in 1..Len(state)}

\* Diff.Apply, the second loop: the keys whose instance is no longer running
Stale(m, running) == {k \in DOMAIN m : m[k].ID \notin running}

RECURSIVE MapDelAll(_, _)
MapDelAll(m, ks) ==
    IF ks = <<>> THEN m ELSE MapDelAll(MapDel(m, m[Head(ks)].ID), Tail(ks))

\* Diff.Apply: the map is ranged over in an order the runtime picks
Apply(state) ==
    LET scanned == ApplyScan(dm, state, <<>>)
        stale == Stale(scanned.m, Running(state))
    IN \E order \in Perms(stale) :
         /\ dEvents' = scanned.events \o
                [i \in 1..Len(order) |-> Event(Delete, scanned.m[order[i]])]
         /\ dm' = MapDelAll(scanned.m, order)
         /\ dArg' = state
         /\ UNCHANGED <<oneShotVars, dnsVars, agentVars, adapterVars, namingVars, grpcVars, bgVars, errVars, cdVars>>

DiffInit ==
    /\ dm = EmptyMap
    /\ dArg = <<>>
    /\ dEvents = <<>>

DiffNext == \E state \in DiffStates : Apply(state)

----------------------------------------------------------------------------
(* Polling DNS watcher *)

\* the poll interval dnsResolver.freq, in ticks of the model's clock
Freq == 2
\* the most addresses one host lookup answers with
MaxIPs == 2

\* (host, port) pairs parseTarget yields for targets that are not IP literals
DnsTargets == {[host |-> "svc.local", port |-> "443"],
               [host |-> "svc.local", port |-> "80"]}

\* what the name server may answer: addresses (one of them not an IP), SRV records
AnswerIPs == {"10.0.0.1", "10.0.0.2", "::1", "bogus"}
SrvRecs == {[Target |-> "lb.local", Port |-> 8080]}
HostAnswers ==
    {[err |-> TRUE, addrs |-> {}]} \cup
    {[err |-> FALSE, addrs |-> A] : A \in {B \in SUBSET AnswerIPs : Cardinality(B) <= MaxIPs}}
SrvAnswers ==
    {[err |-> TRUE, recs |-> {}]} \cup {[err |-> FALSE, recs |-> R] : R \in SUBSET SrvRecs}
\* one poll's answers: to the SRV query, to the lookup of the SRV target, to
\* the lookup of the watcher's host
DnsAnswers == [srv : SrvAnswers, lb : HostAnswers, host : HostAnswers]

\* strconv.Itoa
Digits == <<"0", "1", "2", "3", "4", "5", "6", "7", "8", "9">>
RECURSIVE Itoa(_)
Itoa(n) == IF n < 10 THEN Digits[n + 1] ELSE Itoa(n \div 10) \o Digits[(n % 10) + 1]

\* map[string]*Update that may be nil
NilMap == [nil |-> TRUE, m |-> EmptyMap]
MakeMap(m) == [nil |-> FALSE, m |-> m]
\* &Update{Addr: addr}: Op has its zero value, Add
NewUpdate(addr) == [Op |-> Add, Addr |-> addr]
AddrMap(addrs) == MakeMap([a \in addrs |-> NewUpdate(a)])

\* the addresses of one host answer that formatIP accepts, each with `port`
FormattedAddrs(ans, port) ==
    {formatIP(a).ip \o ":" \o port : a \in {x \in ans.addrs : formatIP(x).ok}}

\* dnsWatcher.lookupSRV: nil only when the SRV lookup itself fails
lookupSRV(ans) ==
    IF ans.srv.err THEN NilMap
    ELSE AddrMap(UNION {IF ans.lb.err THEN {} ELSE FormattedAddrs(ans.lb, Itoa(s.Port))
                        : s \in ans.srv.recs})

\* dnsWatcher.lookupHost
lookupHost(ans, port) ==
    IF ans.host.err THEN NilMap ELSE AddrMap(FormattedAddrs(ans.host, port))

\* a variant of lookup that keeps the stored set when both lookups fail
CandidatesKept(ans, port) ==
    LET newAddrs == lookupSRV(ans)
    IN IF ~newAddrs.nil THEN newAddrs
       ELSE IF ans.host.err THEN curAddrs ELSE lookupHost(ans, port)

\* dnsWatcher.lookup, the choice of the candidate set
Candidates(ans, port) ==
    LET newAddrs == lookupSRV(ans)
    IN IF newAddrs.nil THEN lookupHost(ans, port) ELSE newAddrs

\* a variant of compileUpdate that announces every new address again
compileUpdateAll(cur, new) ==
    {[i \in 1..Len(ds) |-> [cur.m[ds[i]] EXCEPT !.Op = Delete]] \o
     [i \in 1..Len(as) |-> new.m[as[i]]]
        : ds \in Perms({a \in DOMAIN cur.m : a \notin DOMAIN new.m}),
          as \in Perms(DOMAIN new.m)}

\* a variant of compileUpdate that announces one new address at most
compileUpdateOne(cur, new) ==
    {[i \in 1..Len(ds) |-> [cur.m[ds[i]] EXCEPT !.Op = Delete]] \o
     [i \in 1..(IF Len(as) > 0 THEN 1 ELSE 0) |-> new.m[as[i]]]
        : ds \in Perms({a \in DOMAIN cur.m : a \notin DOMAIN new.m}),
          as \in Perms({a \in DOMAIN new.m : a \notin DOMAIN cur.m})}

\* a variant of the first loop that writes Delete into every stored record
RetagAll(cur, new) ==
    [a \in DOMAIN cur.m |-> [cur.m[a] EXCEPT !.Op = Delete]]

\* dnsWatcher.compileUpdate, first loop: the stored records as its writes
\* through the pointers leave them (u.Op = Delete for a vanished address)
Retag(cur, new) ==
    [a \in DOMAIN cur.m |->
        IF a \notin DOMAIN new.m THEN [cur.m[a] EXCEPT !.Op = Delete] ELSE cur.m[a]]

\* dnsWatcher.compileUpdate: every list the two range loops may build
compileUpdate(cur, new) ==
    {[i \in 1..Len(ds) |-> Retag(cur, new)[ds[i]]] \o
     [i \in 1..Len(as) |-> new.m[as[i]]]
        : ds \in Perms({a \in DOMAIN cur.m : a \notin DOMAIN new.m}),
          as \in Perms({a \in DOMAIN new.m : a \notin DOMAIN cur.m})}

\* a variant that leaves the timer stopped
TimerNotSet(d) == [run |-> FALSE, left |-> 0, tick |-> FALSE]

\* time.NewTimer(d), t.Reset(d)
TimerSet(d) == [run |-> TRUE, left |-> d, tick |-> FALSE]
NoTimer == [run |-> FALSE, left |-> 0, tick |-> FALSE]

\* dnsResolver.Resolve, the branch for a host that is not an IP literal
DnsResolve(t) ==
    /\ dnsW.st = "none"
    /\ ~ParseIPOk(t.host)
    /\ dnsW' = [st |-> "live", port |-> t.port]
    /\ timer' = TimerSet(0)
    /\ UNCHANGED <<curAddrs, ctxDone, dnsPc, dnsRet, dnsHist>>
    /\ UNCHANGED <<oneShotVars, diffVars, agentVars, adapterVars, namingVars, grpcVars, bgVars, errVars, cdVars>>

\* the clock advances
TimerTick ==
    /\ timer.run /\ timer.left > 0
    /\ timer' = [timer EXCEPT !.left = @ - 1]
    /\ dnsHist' = [dnsHist EXCEPT !.since = IF @ < Freq THEN @ + 1 ELSE @]
    /\ UNCHANGED <<dnsW, curAddrs, ctxDone, dnsPc, dnsRet>>
    /\ UNCHANGED <<oneShotVars, diffVars, agentVars, adapterVars, namingVars, grpcVars, bgVars, errVars, cdVars>>

\* the timer expires: a value is sent on t.C
TimerFire ==
    /\ timer.run /\ timer.left = 0
    /\ timer' = [run |-> FALSE, left |-> 0, tick |-> TRUE]
    /\ UNCHANGED <<dnsHist, dnsW, curAddrs, ctxDone, dnsPc, dnsRet>>
    /\ UNCHANGED <<oneShotVars, diffVars, agentVars, adapterVars, namingVars, grpcVars, bgVars, errVars, cdVars>>

\* dnsWatcher.Next is called
DnsNextCall ==
    /\ dnsW.st = "live"
    /\ dnsPc = "idle"
    /\ dnsPc' = "select"
    /\ dnsRet' = NoRet
    /\ dnsHist' = [dnsHist EXCEPT !.reused = {}, !.old = EmptyMap]
    /\ UNCHANGED <<dnsW, curAddrs, timer, ctxDone>>
    /\ UNCHANGED <<oneShotVars, diffVars, agentVars, adapterVars, namingVars, grpcVars, bgVars, errVars, cdVars>>

\* dnsWatcher.Next, select: case <-w.ctx.Done()
DnsSelectDone ==
    /\ dnsPc = "select"
    /\ ctxDone
    /\ dnsRet' = ClosedRet
    /\ dnsPc' = "idle"
    /\ UNCHANGED <<dnsHist, dnsW, curAddrs, timer, ctxDone>>
    /\ UNCHANGED <<oneShotVars, diffVars, agentVars, adapterVars, namingVars, grpcVars, bgVars, errVars, cdVars>>

\* dnsWatcher.Next, select: case <-w.t.C (select picks any ready case)
DnsSelectTimer ==
    /\ dnsPc = "select"
    /\ timer.tick
    /\ timer' = [timer EXCEPT !.tick = FALSE]
    /\ dnsPc' = "lookup"
    /\ UNCHANGED <<dnsHist, dnsW, curAddrs, ctxDone, dnsRet>>
    /\ UNCHANGED <<oneShotVars, diffVars, agentVars, adapterVars, namingVars, grpcVars, bgVars, errVars, cdVars>>

\* the caller of Next applies the updates, in order, to its address set
RECURSIVE ApplyUpdates(_, _)
ApplyUpdates(addrs, upd) ==
    IF upd = <<>> THEN addrs
    ELSE ApplyUpdates(IF Head(upd).Op = Add THEN addrs \cup {Head(upd).Addr}
                      ELSE addrs \ {Head(upd).Addr}, Tail(upd))

\* the timer re-armed one tick short of the interval
ResetShort == Freq - 1

\* w.t.Reset(w.r.freq)
ResetDelay == Freq

\* the stored set is not replaced by a poll
StoreKept(cur, new) == cur

\* w.curAddrs = newAddrs
StorePrevious(cur, new) == new

\* dnsWatcher.Next after the select: lookup, Reset, return or loop
DnsLookup(ans) ==
    /\ dnsPc = "lookup"
    /\ LET newAddrs == Candidates(ans, dnsW.port)
           polled == [dnsHist EXCEPT
                        !.cand = DOMAIN newAddrs.m,
                        !.since = 0,
                        !.failed = ans.srv.err /\ ans.host.err,
                        !.handed = DOMAIN newAddrs.m \ DOMAIN curAddrs.m,
                        !.reused = (DOMAIN curAddrs.m \ DOMAIN newAddrs.m) \ dnsHist.handed,
                        !.old = [a \in dnsHist.handed |-> Retag(curAddrs, newAddrs)[a]]]
       IN /\ curAddrs' = StorePrevious(curAddrs, newAddrs)
          /\ \E result \in compileUpdate(curAddrs, newAddrs) :
               IF Len(result) > 0
               THEN /\ dnsRet' = OkRet(result) /\ dnsPc' = "idle"
                    /\ dnsHist' = [polled EXCEPT
                                        !.returns = IF @ = "none" THEN "one" ELSE "more",
                                        !.endCand = DOMAIN newAddrs.m,
                                        !.applied = ApplyUpdates(@, result)]
               ELSE /\ dnsRet' = dnsRet /\ dnsPc' = "select"
                    /\ dnsHist' = [polled EXCEPT !.empties =
                                        @ \/ dnsHist.returns = "none"]
    /\ timer' = TimerSet(ResetDelay)
    /\ UNCHANGED <<dnsW, ctxDone>>
    /\ UNCHANGED <<oneShotVars, diffVars, agentVars, adapterVars, namingVars, grpcVars, bgVars, errVars, cdVars>>

\* dnsWatcher.Close: w.cancel()
DnsClose ==
    /\ dnsW.st = "live"
    /\ ctxDone' = TRUE
    /\ UNCHANGED <<dnsHist, dnsW, curAddrs, timer, dnsPc, dnsRet>>
    /\ UNCHANGED <<oneShotVars, diffVars, agentVars, adapterVars, namingVars, grpcVars, bgVars, errVars, cdVars>>

\* the scope dnsResolver.ctx the watcher's context derives from is cancelled
DnsParentCancel ==
    /\ dnsW.st = "live"
    /\ ctxDone' = TRUE
    /\ UNCHANGED <<dnsHist, dnsW, curAddrs, timer, dnsPc, dnsRet>>
    /\ UNCHANGED <<oneShotVars, diffVars, agentVars, adapterVars, namingVars, grpcVars, bgVars, errVars, cdVars>>

DnsInit ==
    /\ dnsW = [st |-> "none", port |-> ""]
    /\ curAddrs = NilMap
    /\ timer = NoTimer
    /\ ctxDone = FALSE
    /\ dnsPc = "idle"
    /\ dnsRet = NoRet
    /\ dnsHist = [empties |-> FALSE, returns |-> "none", cand |-> {}, endCand |-> {},
                  applied |-> {}, since |-> 0, failed |-> FALSE,
                  handed |-> {}, reused |-> {}, old |-> EmptyMap]

DnsNext ==
    \/ \E t \in DnsTargets : DnsResolve(t)
    \/ TimerTick
    \/ TimerFire
    \/ DnsNextCall
    \/ DnsSelectDone
    \/ DnsSelectTimer
    \/ \E ans \in DnsAnswers : DnsLookup(ans)
    \/ DnsClose
    \/ DnsParentCancel

----------------------------------------------------------------------------
(* Local discovery agent *)

\* the calls one run makes on the agent, its services and its watchers
MaxCalls == 6
\* the watchers one run creates
MaxWatchers == 2
Watchers == 1..MaxWatchers
\* no watcher: the zero of a watcher name
NoW == 0

\* the registrations callers make; an empty ID asks for a generated one
Regs == {[ID |-> "a", Name |-> "S", Addr |-> "10.0.0.1", Port |-> 8080, Tags |-> <<"eu">>],
         [ID |-> "b", Name |-> "S", Addr |-> "10.0.0.2", Port |-> 8080, Tags |-> <<>>],
         [ID |-> "a", Name |-> "T", Addr |-> "10.0.0.3", Port |-> 9090, Tags |-> <<>>],
         [ID |-> "", Name |-> "T", Addr |-> "10.0.0.3", Port |-> 9090, Tags |-> <<>>]}
\* what uuid.New().String() may return
Uuids == {"u1"}
AgentIDs == {r.ID : r \in Regs} \cup Uuids
ServiceNames == {r.Name : r \in Regs} \cup {"U"}

ErrRegistered == "service already registered"
ErrNoService == "service does not exist"

NoEvent == [Op |-> "", Instance |-> [ID |-> ""]]
NoOp == [kind |-> "none", phase |-> "", id |-> "", ev |-> NoEvent,
         start |-> {}, sent |-> [w \in Watchers |-> 0], cur |-> NoW]
NoService == [name |-> "", instances |-> <<>>]

\* agRet and lwRet hold what the step that led to the state returned, if it
\* was the return of a call, and nothing otherwise
NoAgRet == [op |-> "", id |-> "", err |-> NoErr]
NoLwRet == [w |-> NoW, events |-> <<>>, err |-> NoErr]
NoReturn == agRet' = NoAgRet /\ lwRet' = NoLwRet
AgReturn(v) == agRet' = v /\ lwRet' = NoLwRet
LwReturn(v) == lwRet' = v /\ agRet' = NoAgRet

NoCrash == ~agPanic /\ \A w \in Watchers : ~lw[w].panic

\* agent.Register, the ID: r.ID, or a generated one when r.ID is empty
RegisterIDs(r) == IF r.ID = "" THEN Uuids ELSE {r.ID}

\* agent.Register, the instance stored
NewInstance(r, id) ==
    [Local |-> TRUE, ID |-> id, Name |-> r.Name, Host |-> r.Addr, Port |-> r.Port,
     Tags |-> r.Tags]

\* the start of `for sub := range a.Subs` with the event to send
StartBroadcast(kind, id, ev) ==
    [kind |-> kind, phase |-> "bcast", id |-> id, ev |-> ev,
     start |-> Subs, sent |-> [w \in Watchers |-> 0], cur |-> NoW]

\* a variant of the check that never finds the ID
NeverRegistered(id) == FALSE

\* agent.Register: `if _, ok := a.Registry[id]; ok`
AlreadyRegistered(id) == id \in DOMAIN Registry

\* agent.Register with the ID `id`, up to the broadcast
RegisterAs(r, id) ==
    /\ NoCrash
    /\ mu = "free"
    /\ calls < MaxCalls
    /\ calls' = calls + 1
    /\ IF AlreadyRegistered(id)
       THEN /\ AgReturn([op |-> "Register", id |-> "", err |-> ErrRegistered])
            /\ UNCHANGED <<Registry, mu, call>>
       ELSE /\ Registry' = MapPut(Registry, id, NewInstance(r, id))
            /\ mu' = "locked"
            /\ call' = StartBroadcast("Register", id, Event(Add, NewInstance(r, id)))
            /\ NoReturn
    /\ UNCHANGED <<Subs, svcH, lw, agPanic>>
    /\ UNCHANGED <<oneShotVars, diffVars, dnsVars, adapterVars, namingVars, grpcVars, bgVars, errVars, cdVars>>

\* agent.Register
Register(r) == \E id \in RegisterIDs(r) : RegisterAs(r, id)

\* a variant of the event that announces the removed instance as updated
UpdateEvent(inst) == Event(Update, inst)

\* agent.deregister: &Event{Op: Delete, Instance: instance}
DeleteEvent(inst) == Event(Delete, inst)

\* agent.Deregister and agent.deregister, up to the broadcast
Deregister(id) ==
    /\ NoCrash
    /\ mu = "free"
    /\ calls < MaxCalls
    /\ calls' = calls + 1
    /\ IF id \notin DOMAIN Registry
       THEN /\ AgReturn([op |-> "Deregister", id |-> id, err |-> NilErr])
            /\ UNCHANGED <<Registry, mu, call>>
       ELSE /\ Registry' = MapDel(Registry, id)
            /\ mu' = "locked"
            /\ call' = StartBroadcast("Deregister", id, DeleteEvent(Registry[id]))
            /\ NoReturn
    /\ UNCHANGED <<Subs, svcH, lw, agPanic>>
    /\ UNCHANGED <<oneShotVars, diffVars, dnsVars, adapterVars, namingVars, grpcVars, bgVars, errVars, cdVars>>

\* agent.Leave takes the lock
Leave ==
    /\ NoCrash
    /\ mu = "free"
    /\ calls < MaxCalls
    /\ calls' = calls + 1
    /\ mu' = "locked"
    /\ call' = [NoOp EXCEPT !.kind = "Leave", !.phase = "range"]
    /\ UNCHANGED <<Registry, Subs, svcH, lw, agPanic>>
    /\ NoReturn
    /\ UNCHANGED <<oneShotVars, diffVars, dnsVars, adapterVars, namingVars, grpcVars, bgVars, errVars, cdVars>>

\* agent.Leave, `for id := range a.Registry`: deregister one more instance
LeaveRange ==
    /\ NoCrash
    /\ call.kind = "Leave" /\ call.phase = "range"
    /\ \E id \in DOMAIN Registry :
         /\ Registry' = MapDel(Registry, id)
         /\ call' = StartBroadcast("Leave", id, DeleteEvent(Registry[id]))
    /\ UNCHANGED <<Subs, mu, svcH, lw, agPanic>>
    /\ NoReturn
    /\ UNCHANGED <<calls, oneShotVars, diffVars, dnsVars, adapterVars, namingVars, grpcVars, bgVars, errVars, cdVars>>

\* a variant of Leave that keeps the subscriptions
LeaveSubsKept == Subs

\* agent.Leave: a.Subs = map[chan *Event]struct{}{}
LeaveSubs == {}

\* agent.Leave, after the loop: both maps are replaced by empty ones
LeaveEnd ==
    /\ NoCrash
    /\ call.kind = "Leave" /\ call.phase = "range"
    /\ DOMAIN Registry = {}
    /\ Registry' = EmptyMap
    /\ Subs' = LeaveSubs
    /\ mu' = "free"
    /\ call' = NoOp
    /\ AgReturn([op |-> "Leave", id |-> "", err |-> NilErr])
    /\ UNCHANGED <<svcH, lw, agPanic>>
    /\ UNCHANGED <<calls, oneShotVars, diffVars, dnsVars, adapterVars, namingVars, grpcVars, bgVars, errVars, cdVars>>

\* `for sub := range a.Subs`: the range yields an entry not yet yielded
BcastPick ==
    /\ NoCrash
    /\ call.phase = "bcast" /\ call.cur = NoW
    /\ \E w \in Subs : call.sent[w] = 0 /\ call' = [call EXCEPT !.cur = w]
    /\ UNCHANGED <<Registry, Subs, mu, svcH, lw, agPanic>>
    /\ NoReturn
    /\ UNCHANGED <<calls, oneShotVars, diffVars, dnsVars, adapterVars, namingVars, grpcVars, bgVars, errVars, cdVars>>

\* a variant of the send that drops the event when the channel is full
SendOrDrop(c, v) == IF ChanCanSend(c) THEN {ChanSend(c, v)} ELSE {c}

\* `sub <- &Event{...}` on an open channel: the channel after the send; there
\* is none while the channel is full, and the sender waits
Send(c, v) == IF ChanCanSend(c) THEN {ChanSend(c, v)} ELSE {}

\* the send of the broadcast loop; a send on a closed channel panics, and the
\* deferred a.mu.Unlock() runs
BcastSend ==
    /\ NoCrash
    /\ call.phase = "bcast" /\ call.cur # NoW
    /\ IF lw[call.cur].sub.closed
       THEN /\ agPanic' = TRUE
            /\ mu' = "free"
            /\ call' = NoOp
            /\ UNCHANGED lw
       ELSE /\ \E c \in Send(lw[call.cur].sub, call.ev) :
                 lw' = [lw EXCEPT ![call.cur].sub = c]
            /\ call' = [call EXCEPT !.sent[call.cur] = @ + 1, !.cur = NoW]
            /\ UNCHANGED <<mu, agPanic>>
    /\ UNCHANGED <<Registry, Subs, svcH>>
    /\ NoReturn
    /\ UNCHANGED <<calls, oneShotVars, diffVars, dnsVars, adapterVars, namingVars, grpcVars, bgVars, errVars, cdVars>>

\* a variant in which the loop may end before every subscriber was sent to
RangeDoneEarly == TRUE

\* the range over a.Subs is over: every entry present since it began was
\* yielded (one added meanwhile may be skipped)
RangeDone == \A w \in Subs \cap call.start : call.sent[w] > 0

\* the broadcast loop ends: Register and Deregister return, Leave goes on
BcastEnd ==
    /\ NoCrash
    /\ call.phase = "bcast" /\ call.cur = NoW
    /\ RangeDone
    /\ IF call.kind = "Leave"
       THEN /\ call' = [call EXCEPT !.phase = "range"]
            /\ UNCHANGED mu
            /\ NoReturn
       ELSE /\ call' = NoOp
            /\ mu' = "free"
            /\ AgReturn([op |-> call.kind,
                          id |-> IF call.kind = "Register" THEN call.id ELSE "",
                          err |-> NilErr])
    /\ UNCHANGED <<Registry, Subs, svcH, lw, agPanic>>
    /\ UNCHANGED <<calls, oneShotVars, diffVars, dnsVars, adapterVars, namingVars, grpcVars, bgVars, errVars, cdVars>>

\* agent.services: one service per name, holding the instance ranged over last
ServicesMaps ==
    LET names == {Registry[k].Name : k \in DOMAIN Registry}
    IN {f \in [names -> {Registry[k] : k \in DOMAIN Registry}] :
            \A n \in names : f[n].Name = n}

\* the tags a caller of Service may ask for
TagSets == {<<>>, <<"eu">>}

\* agent.Service, under the read lock; a.services gets the tags and does not
\* read them
Service(name, tags) ==
    /\ NoCrash
    /\ mu = "free"
    /\ calls < MaxCalls
    /\ calls' = calls + 1
    /\ \E services \in ServicesMaps :
         IF name \in DOMAIN services
         THEN /\ svcH' = [name |-> name, instances |-> <<services[name]>>]
              /\ AgReturn([op |-> "Service", id |-> "", err |-> NilErr])
         ELSE /\ AgReturn([op |-> "Service", id |-> "", err |-> ErrNoService])
              /\ UNCHANGED svcH
    /\ UNCHANGED <<Registry, Subs, mu, call, lw, agPanic>>
    /\ UNCHANGED <<oneShotVars, diffVars, dnsVars, adapterVars, namingVars, grpcVars, bgVars, errVars, cdVars>>

\* the watch closure: sub := make(chan *Event, 1)
WatchChan == ChanMake

\* service.Watch: the closure made by agent.services; it takes no lock
Watch(w) ==
    /\ NoCrash
    /\ svcH.name # ""
    /\ calls < MaxCalls
    /\ calls' = calls + 1
    /\ lw[w].st = "none"
    /\ \A v \in Watchers : v < w => lw[v].st # "none"
    /\ lw' = [lw EXCEPT ![w] = [st |-> "live", sub |-> WatchChan, closing |-> FALSE,
                                panic |-> FALSE, name |-> svcH.name]]
    /\ Subs' = Subs \cup {w}
    /\ UNCHANGED <<Registry, mu, call, svcH, agPanic>>
    /\ NoReturn
    /\ UNCHANGED <<oneShotVars, diffVars, dnsVars, adapterVars, namingVars, grpcVars, bgVars, errVars, cdVars>>

\* watcher.Next
LwNext(w) ==
    /\ NoCrash
    /\ lw[w].st = "live"
    /\ calls < MaxCalls
    /\ calls' = calls + 1
    /\ ChanCanRecv(lw[w].sub)
    /\ LwReturn([w |-> w,
                  events |-> IF ChanRecvOk(lw[w].sub) THEN <<Head(lw[w].sub.buf)>> ELSE <<>>,
                  err |-> IF ChanRecvOk(lw[w].sub) THEN NilErr ELSE ErrWatcherClosed])
    /\ lw' = [lw EXCEPT ![w].sub = ChanAfterRecv(@)]
    /\ UNCHANGED <<Registry, Subs, mu, call, svcH, agPanic>>
    /\ UNCHANGED <<oneShotVars, diffVars, dnsVars, adapterVars, namingVars, grpcVars, bgVars, errVars, cdVars>>

\* watcher.Close, w.unsub(): delete(a.Subs, sub), without the lock
LwCloseUnsub(w) ==
    /\ NoCrash
    /\ lw[w].st = "live" /\ ~lw[w].closing
    /\ calls < MaxCalls
    /\ calls' = calls + 1
    /\ Subs' = Subs \ {w}
    /\ lw' = [lw EXCEPT ![w].closing = TRUE]
    /\ UNCHANGED <<Registry, mu, call, svcH, agPanic>>
    /\ NoReturn
    /\ UNCHANGED <<oneShotVars, diffVars, dnsVars, adapterVars, namingVars, grpcVars, bgVars, errVars, cdVars>>

\* watcher.Close, close(w.sub): closing a closed channel panics
LwCloseChan(w) ==
    /\ NoCrash
    /\ lw[w].st = "live" /\ lw[w].closing
    /\ lw' = [lw EXCEPT ![w] =
                IF @.sub.closed
                THEN [@ EXCEPT !.panic = TRUE, !.closing = FALSE]
                ELSE [@ EXCEPT !.sub = ChanClose(@), !.closing = FALSE]]
    /\ UNCHANGED <<Registry, Subs, mu, call, svcH, agPanic>>
    /\ NoReturn
    /\ UNCHANGED <<calls, oneShotVars, diffVars, dnsVars, adapterVars, namingVars, grpcVars, bgVars, errVars, cdVars>>

AgentInit ==
    /\ Registry = EmptyMap
    /\ Subs = {}
    /\ mu = "free"
    /\ call = NoOp
    /\ agRet = NoAgRet
    /\ svcH = NoService
    /\ lw = [w \in Watchers |-> [st |-> "none", sub |-> ChanMake, closing |-> FALSE,
                                 panic |-> FALSE, name |-> ""]]
    /\ lwRet = NoLwRet
    /\ agPanic = FALSE
    /\ calls = 0

AgentNext ==
    \/ \E r \in Regs : Register(r)
    \/ \E id \in AgentIDs : Deregister(id)
    \/ Leave
    \/ LeaveRange
    \/ LeaveEnd
    \/ BcastPick
    \/ BcastSend
    \/ BcastEnd
    \/ \E name \in ServiceNames : \E tags \in TagSets : Service(name, tags)
    \/ \E w \in Watchers : Watch(w)
    \/ \E w \in Watchers : LwNext(w)
    \/ \E w \in Watchers : LwCloseUnsub(w)
    \/ \E w \in Watchers : LwCloseChan(w)

----------------------------------------------------------------------------
(* The disco-to-address adapter, discoWatcher *)

\* the most events one Next of the wrapped watcher returns
MaxBatch == 2

AdIDs == {"a", "b"}
AdHosts == {"10.0.0.1", "::1"}
AdInstances == {DiffInstance(id, h) : id \in AdIDs, h \in AdHosts}
ErrBackend == "backend unavailable"

\* net.JoinHostPort: a host with a colon goes in square brackets
JoinHostPort(host, port) ==
    IF host \in V6Literals THEN "[" \o host \o "]:" \o port ELSE host \o ":" \o port

\* Instance.Addr
Addr(inst) == JoinHostPort(inst.Host, Itoa(inst.Port))

\* the events a discovery back end may report next, with the instances it
\* holds afterwards: an Add of a new ID, an Update of a held ID (the address
\* changed or not), a Delete carrying the held instance
SrcEvents(src) ==
    {[evt |-> Event(Add, i), src |-> MapPut(src, i.ID, i)]
        : i \in {x \in AdInstances : x.ID \notin DOMAIN src}} \cup
    {[evt |-> Event(Update, i), src |-> MapPut(src, i.ID, i)]
        : i \in {x \in AdInstances : x.ID \in DOMAIN src}} \cup
    {[evt |-> Event(Delete, src[id]), src |-> MapDel(src, id)] : id \in DOMAIN src}

\* the batches of 1..n events the wrapped Next may return
RECURSIVE SrcBatches(_, _)
SrcBatches(src, n) ==
    IF n = 0 THEN {}
    ELSE LET firsts == SrcEvents(src)
         IN {[events |-> <<f.evt>>, src |-> f.src] : f \in firsts} \cup
            UNION {{[events |-> <<f.evt>> \o b.events, src |-> b.src]
                        : b \in SrcBatches(f.src, n - 1)} : f \in firsts}

\* a variant of the comparison that takes every Update for an address change
AddrChangedAlways(old, new) == TRUE

\* discoWatcher.Next: `inst.Addr() != evt.Instance.Addr()`
AddrChanged(old, new) == Addr(old) # Addr(new)

\* discoWatcher.Next, one turn of the loop over the events: st holds the
\* cache, the updates so far and the addresses announced so far
AdEvent(st, evt) ==
    LET id == evt.Instance.ID IN
    IF evt.Op = Add
    THEN [m |-> MapPut(st.m, id, evt.Instance),
          upd |-> Append(st.upd, [Op |-> Add, Addr |-> Addr(evt.Instance)]),
          known |-> MapPut(st.known, id, Addr(evt.Instance))]
    ELSE IF evt.Op = Update
    THEN IF id \notin DOMAIN st.m THEN st
         ELSE IF AddrChanged(st.m[id], evt.Instance)
         THEN [st EXCEPT !.upd = st.upd \o <<[Op |-> Delete, Addr |-> Addr(st.m[id])],
                                             [Op |-> Add, Addr |-> Addr(evt.Instance)]>>,
                         !.known = MapPut(st.known, id, Addr(evt.Instance))]
         ELSE st
    ELSE [m |-> MapDel(st.m, id),
          upd |-> Append(st.upd, [Op |-> Delete, Addr |-> Addr(evt.Instance)]),
          known |-> MapDel(st.known, id)]

RECURSIVE AdEvents(_, _)
AdEvents(st, events) ==
    IF events = <<>> THEN st ELSE AdEvents(AdEvent(st, Head(events)), Tail(events))


\* discoWatcher.Next when w.w.Next returns events
AdNext ==
    /\ ~adClosed
    /\ \E b \in SrcBatches(adSrc, MaxBatch) :
         LET st == AdEvents([m |-> adInstances.m, upd |-> <<>>, known |-> adKnown],
                            b.events)
         IN /\ adInstances' = MakeMap(st.m)
            /\ adKnown' = st.known
            /\ adRet' = OkRet(st.upd)
            /\ adApplied' = ApplyUpdates(adApplied, st.upd)
            /\ adEvents' = b.events
            /\ adSrc' = b.src
    /\ UNCHANGED adClosed
    /\ UNCHANGED <<oneShotVars, diffVars, dnsVars, agentVars, namingVars, grpcVars, bgVars, errVars, cdVars>>

\* discoWatcher.Next when w.w.Next returns disco.ErrWatcherClosed
AdNextClosed ==
    /\ adClosed
    /\ adInstances' = MakeMap(adInstances.m)
    /\ adRet' = ClosedRet
    /\ adEvents' = <<>>
    /\ UNCHANGED <<adSrc, adKnown, adClosed, adApplied>>
    /\ UNCHANGED <<oneShotVars, diffVars, dnsVars, agentVars, namingVars, grpcVars, bgVars, errVars, cdVars>>

\* discoWatcher.Next when w.w.Next returns another error
AdNextFailed ==
    /\ ~adClosed
    /\ adInstances' = MakeMap(adInstances.m)
    /\ adRet' = [upd |-> <<>>, err |-> ErrBackend]
    /\ adEvents' = <<>>
    /\ UNCHANGED <<adSrc, adKnown, adClosed, adApplied>>
    /\ UNCHANGED <<oneShotVars, diffVars, dnsVars, agentVars, namingVars, grpcVars, bgVars, errVars, cdVars>>

\* discoWatcher.Close
AdClose ==
    /\ ~adClosed
    /\ adClosed' = TRUE
    /\ adEvents' = <<>>
    /\ UNCHANGED <<adInstances, adSrc, adKnown, adRet, adApplied>>
    /\ UNCHANGED <<oneShotVars, diffVars, dnsVars, agentVars, namingVars, grpcVars, bgVars, errVars, cdVars>>

AdapterInit ==
    /\ adInstances = NilMap
    /\ adSrc = EmptyMap
    /\ adKnown = EmptyMap
    /\ adEvents = <<>>
    /\ adClosed = FALSE
    /\ adRet = NoRet
    /\ adApplied = {}

AdapterNext ==
    \/ AdNext
    \/ AdNextClosed
    \/ AdNextFailed
    \/ AdClose

----------------------------------------------------------------------------
(* The scheme table of package naming: Register, SetDefaultScheme, Resolve.
   A string is modelled as the sequence of its lexemes: words, numbers and
   the punctuation ":", "/", "//". *)

Words == {"passthrough", "dns", "disco", "foo", "DNS", "myservice"}
Numbers == {"10.0.0.1", "80"}

\* url.Parse lower-cases the scheme
Lower(w) == IF w = "DNS" THEN "dns" ELSE w

\* the first path segment of a URI without a scheme holds a colon
ColonInFirstSegment(str) ==
    \E i \in 1..Len(str) :
        str[i] = ":" /\ \A j \in 1..(i - 1) : str[j] \notin {"/", "//"}

\* url.Parse: the scheme is a leading word followed by a colon; a leading
\* colon, or a colon in the first segment of a URI with no scheme, is an error
Parse(str) ==
    IF str = <<>> THEN [ok |-> TRUE, Scheme |-> "", Rest |-> <<>>]
    ELSE IF Head(str) = ":" THEN [ok |-> FALSE, Scheme |-> "", Rest |-> <<>>]
    ELSE IF Head(str) \in Words /\ Len(str) >= 2 /\ str[2] = ":"
    THEN [ok |-> TRUE, Scheme |-> Lower(Head(str)), Rest |-> Tail(Tail(str))]
    ELSE IF ColonInFirstSegment(str) THEN [ok |-> FALSE, Scheme |-> "", Rest |-> <<>>]
    ELSE [ok |-> TRUE, Scheme |-> "", Rest |-> str]

\* URL.String
String(u) == IF u.Scheme = "" THEN u.Rest ELSE <<u.Scheme, ":">> \o u.Rest

\* the builders: the three of init(), one of a caller, and nil
NilBuilder == "nil"
Builders == {"buildDNS", "buildDisco", "buildPassthrough", "custom", NilBuilder}
SchemeNames == {"dns", "foo", "DNS"}
Defaults == {<<"passthrough">>, <<"dns">>, <<"foo">>, <<"DNS">>, <<>>}
URIs == {<<"myservice">>, <<"myservice", "/", "80">>,
         <<"passthrough", ":", "//", "myservice">>,
         <<"dns", ":", "//", "myservice">>,
         <<"DNS", ":", "//", "myservice">>,
         <<"foo", ":", "//", "myservice">>,
         <<"myservice", ":", "80">>,
         <<"10.0.0.1", ":", "80">>,
         <<":", "//", "myservice">>}

PanicNil == "net/naming: Registered resolver is nil"
PanicDup == "net/naming: Duplicated resolver"
ErrInvalidURI == "net/naming: invalid uri"
ErrNotFound(scheme) == "net/naming: resolver not found <" \o scheme \o ">"
NoBuilder == "none"
NoNmRet == [op |-> "", panic |-> "", built |-> NoBuilder, uri |-> <<>>, err |-> NoErr]

\* a variant of the check that never finds the scheme taken
NeverDup(name) == FALSE

\* naming.Register: `if _, dup := builders[name]; dup`
IsDup(name) == name \in DOMAIN builders

\* naming.Register
NamingRegister(name, r) ==
    /\ IF r = NilBuilder
       THEN /\ nmRet' = [NoNmRet EXCEPT !.op = "Register", !.panic = PanicNil]
            /\ UNCHANGED builders
       ELSE IF IsDup(name)
       THEN /\ nmRet' = [NoNmRet EXCEPT !.op = "Register", !.panic = PanicDup]
            /\ UNCHANGED builders
       ELSE /\ nmRet' = [NoNmRet EXCEPT !.op = "Register"]
            /\ builders' = MapPut(builders, name, r)
    /\ UNCHANGED defaultScheme
    /\ UNCHANGED <<oneShotVars, diffVars, dnsVars, agentVars, adapterVars, grpcVars, bgVars, errVars, cdVars>>

\* naming.SetDefaultScheme
SetDefaultScheme(d) ==
    /\ defaultScheme' = d
    /\ nmRet' = [NoNmRet EXCEPT !.op = "SetDefaultScheme"]
    /\ UNCHANGED builders
    /\ UNCHANGED <<oneShotVars, diffVars, dnsVars, agentVars, adapterVars, grpcVars, bgVars, errVars, cdVars>>

\* a variant that takes passthrough for the default whatever was set
WithPassthrough(d, uri) == <<"passthrough", ":", "//">> \o uri

\* naming.Resolve: defaultScheme + "://" + uri
WithDefault(d, uri) == d \o <<":", "//">> \o uri

\* a variant of the lookup that falls back to the passthrough builder
FindBuilderOrPassthrough(tbl, scheme) ==
    IF scheme \in DOMAIN tbl THEN tbl[scheme] ELSE "buildPassthrough"

\* naming.Resolve: `f, ok := builders[u.Scheme]`
FindBuilder(tbl, scheme) == IF scheme \in DOMAIN tbl THEN tbl[scheme] ELSE NoBuilder

\* naming.Resolve: what it returns for `uri` with the table and the default
\* given: the builder invoked and the URI handed to it, or an error
ResolveOutcome(tbl, d, uri) ==
    LET u1 == Parse(uri)
        u == IF u1.ok /\ u1.Scheme = "" THEN Parse(WithDefault(d, uri)) ELSE u1
        f == FindBuilder(tbl, u.Scheme)
    IN IF ~u.ok THEN [NoNmRet EXCEPT !.op = "Resolve", !.err = ErrInvalidURI]
       ELSE IF f # NoBuilder
       THEN [NoNmRet EXCEPT !.op = "Resolve", !.built = f, !.uri = String(u), !.err = NilErr]
       ELSE [NoNmRet EXCEPT !.op = "Resolve", !.err = ErrNotFound(u.Scheme)]

\* naming.Resolve
NamingResolve(uri) ==
    /\ nmRet' = ResolveOutcome(builders, defaultScheme, uri)
    /\ UNCHANGED <<builders, defaultScheme>>
    /\ UNCHANGED <<oneShotVars, diffVars, dnsVars, agentVars, adapterVars, grpcVars, bgVars, errVars, cdVars>>

\* the package after init()
NamingInit ==
    /\ builders = [sch \in {"dns", "disco", "passthrough"} |->
                     IF sch = "dns" THEN "buildDNS"
                     ELSE IF sch = "disco" THEN "buildDisco" ELSE "buildPassthrough"]
    /\ defaultScheme = <<"passthrough">>
    /\ nmRet = NoNmRet

NamingNext ==
    \/ \E name \in SchemeNames : \E r \in Builders : NamingRegister(name, r)
    \/ \E d \in Defaults : SetDefaultScheme(d)
    \/ \E uri \in URIs : NamingResolve(uri)

----------------------------------------------------------------------------
(* The gRPC naming adapter: a watcher of gRPC over a watcher of package naming *)

OtherOp == "Operation(2)"
GrpcAdd == "grpc.Add"
GrpcDelete == "grpc.Delete"
ErrUnsupportedOp(o) == "net/grpc: unsupported naming op " \o o
GwAddrs == {"10.0.0.1:80", "[::1]:80"}
GwMetadata == {"nil", "eu"}
\* naming.Update
GwUpdates == [Op : {Add, Delete, OtherOp}, Addr : GwAddrs, Metadata : GwMetadata]
\* the wrapped watcher hands over any batch, the empty one included
RECURSIVE GwBatches(_)
GwBatches(n) ==
    IF n = 0 THEN {<<>>}
    ELSE GwBatches(n - 1) \cup
         {Append(b, u) : b \in {x \in GwBatches(n - 1) : Len(x) = n - 1}, u \in GwUpdates}
GwErrors == {ErrWatcherClosed, ErrBackend}
NoGwRet == [upd |-> <<>>, err |-> NoErr]

\* a variant of the loop that passes over an operation it does not know
RECURSIVE ConvertSkipping(_, _)
ConvertSkipping(res, updates) ==
    IF res = <<>> THEN [upd |-> updates, err |-> NilErr]
    ELSE LET u == Head(res)
         IN IF u.Op = Add
            THEN ConvertSkipping(Tail(res), Append(updates,
                     [Op |-> GrpcAdd, Addr |-> u.Addr, Metadata |-> u.Metadata]))
            ELSE IF u.Op = Delete
            THEN ConvertSkipping(Tail(res), Append(updates,
                     [Op |-> GrpcDelete, Addr |-> u.Addr, Metadata |-> u.Metadata]))
            ELSE ConvertSkipping(Tail(res), updates)

\* watcher.Next: the loop over the batch of the wrapped watcher
RECURSIVE Convert(_, _)
Convert(res, updates) ==
    IF res = <<>> THEN [upd |-> updates, err |-> NilErr]
    ELSE LET u == Head(res)
         IN IF u.Op = Add
            THEN Convert(Tail(res), Append(updates,
                     [Op |-> GrpcAdd, Addr |-> u.Addr, Metadata |-> u.Metadata]))
            ELSE IF u.Op = Delete
            THEN Convert(Tail(res), Append(updates,
                     [Op |-> GrpcDelete, Addr |-> u.Addr, Metadata |-> u.Metadata]))
            ELSE [upd |-> <<>>, err |-> ErrUnsupportedOp("2")]

\* watcher.Next, the wrapped Next returned a batch
GrpcNext ==
    /\ \E res \in GwBatches(MaxBatch) :
        /\ gwIn' = [upd |-> res, err |-> NilErr]
        /\ gwRet' = Convert(res, <<>>)
    /\ UNCHANGED gwClosed
    /\ UNCHANGED <<oneShotVars, diffVars, dnsVars, agentVars, adapterVars, namingVars, bgVars, errVars, cdVars>>

\* watcher.Next, the wrapped Next returned an error
GrpcNextFailed ==
    /\ \E err \in GwErrors :
        /\ gwIn' = [upd |-> <<>>, err |-> err]
        /\ gwRet' = [upd |-> <<>>, err |-> err]
    /\ UNCHANGED gwClosed
    /\ UNCHANGED <<oneShotVars, diffVars, dnsVars, agentVars, adapterVars, namingVars, bgVars, errVars, cdVars>>

\* watcher.Close
GrpcClose ==
    /\ gwClosed' = TRUE
    /\ UNCHANGED <<gwIn, gwRet>>
    /\ UNCHANGED <<oneShotVars, diffVars, dnsVars, agentVars, adapterVars, namingVars, bgVars, errVars, cdVars>>

GrpcInit ==
    /\ gwIn = NoGwRet
    /\ gwClosed = FALSE
    /\ gwRet = NoGwRet

GrpcNextStep ==
    \/ GrpcNext
    \/ GrpcNextFailed
    \/ GrpcClose

----------------------------------------------------------------------------
(* The registry of background jobs, bg.Reg: Dispatch, Drain and the
   goroutines they start *)

Jobs == {"j1", "j2"}
ErrDrain == "registry is draining"
ErrDup == "job has already been registered"
NoBgRet == [op |-> "", job |-> "", err |-> NoErr]

\* a variant of the check that never finds the job in the table
NotRegistered(j) == FALSE

\* Reg.Dispatch: `if _, ok := r.jobs[j]; ok`
IsRegistered(j) == j \in jobs

\* Reg.Dispatch, under r.mu: refuse while draining, refuse a registered
\* job, else register the job and start its goroutine
Dispatch(j) ==
    /\ ~crashed
    /\ IF drain
       THEN /\ bgRet' = [op |-> "Dispatch", job |-> j, err |-> ErrDrain]
            /\ UNCHANGED <<jobs, started, jobPc>>
       ELSE IF IsRegistered(j)
       THEN /\ bgRet' = [op |-> "Dispatch", job |-> j, err |-> ErrDup]
            /\ UNCHANGED <<jobs, started, jobPc>>
       ELSE /\ bgRet' = [op |-> "Dispatch", job |-> j, err |-> NilErr]
            /\ jobs' = jobs \cup {j}
            /\ started' = [started EXCEPT ![j] = ChanMake]
            /\ jobPc' = [jobPc EXCEPT ![j] = "spawned"]
    /\ UNCHANGED <<drain, drainPc, ranged, stopper, wg, crashed>>
    /\ UNCHANGED <<oneShotVars, diffVars, dnsVars, agentVars, adapterVars, namingVars, grpcVars, errVars, cdVars>>

\* the goroutine of Dispatch: s.started <- struct{}{}
JobSend(j) ==
    /\ ~crashed
    /\ jobPc[j] = "spawned"
    /\ ChanCanSend(started[j])
    /\ started' = [started EXCEPT ![j] = ChanSend(started[j], "started")]
    /\ jobPc' = [jobPc EXCEPT ![j] = "sent"]
    /\ bgRet' = NoBgRet
    /\ UNCHANGED <<drain, jobs, drainPc, ranged, stopper, wg, crashed>>
    /\ UNCHANGED <<oneShotVars, diffVars, dnsVars, agentVars, adapterVars, namingVars, grpcVars, errVars, cdVars>>

\* the goroutine of Dispatch: j.Start() is invoked
JobStart(j) ==
    /\ ~crashed
    /\ jobPc[j] = "sent"
    /\ jobPc' = [jobPc EXCEPT ![j] = "running"]
    /\ bgRet' = NoBgRet
    /\ UNCHANGED <<drain, jobs, started, drainPc, ranged, stopper, wg, crashed>>
    /\ UNCHANGED <<oneShotVars, diffVars, dnsVars, agentVars, adapterVars, namingVars, grpcVars, errVars, cdVars>>

\* j.Start() returns, when the job chooses to
JobReturn(j) ==
    /\ ~crashed
    /\ jobPc[j] = "running"
    /\ jobPc' = [jobPc EXCEPT ![j] = "returned"]
    /\ bgRet' = NoBgRet
    /\ UNCHANGED <<drain, jobs, started, drainPc, ranged, stopper, wg, crashed>>
    /\ UNCHANGED <<oneShotVars, diffVars, dnsVars, agentVars, adapterVars, namingVars, grpcVars, errVars, cdVars>>

\* the goroutine of Dispatch, deferred: r.deregister(j) under r.mu. Drain
\* ranges over r.jobs without r.mu: a delete during that range is a data
\* race, which the runtime may end with "concurrent map iteration and map
\* write"
JobDeregister(j) ==
    /\ ~crashed
    /\ jobPc[j] = "returned"
    /\ bgRet' = NoBgRet
    /\ \/ /\ jobs' = jobs \ {j}
          /\ jobPc' = [jobPc EXCEPT ![j] = "idle"]
          /\ UNCHANGED crashed
       \/ /\ drainPc = "ranging"
          /\ crashed' = TRUE
          /\ UNCHANGED <<jobs, jobPc>>
    /\ UNCHANGED <<drain, started, drainPc, ranged, stopper, wg>>
    /\ UNCHANGED <<oneShotVars, diffVars, dnsVars, agentVars, adapterVars, namingVars, grpcVars, errVars, cdVars>>

\* Reg.Drain, under r.mu: return when draining already, else set the flag
\* and size the WaitGroup after the table
DrainCall ==
    /\ ~crashed
    /\ drainPc \in {"idle", "done"}
    /\ bgRet' = [op |-> "Drain", job |-> "", err |-> NoErr]
    /\ IF drain
       THEN UNCHANGED <<drain, wg, drainPc, ranged>>
       ELSE /\ drain' = TRUE
            /\ wg' = Cardinality(jobs)
            /\ drainPc' = "ranging"
            /\ ranged' = {}
    /\ UNCHANGED <<jobs, started, jobPc, stopper, crashed>>
    /\ UNCHANGED <<oneShotVars, diffVars, dnsVars, agentVars, adapterVars, namingVars, grpcVars, errVars, cdVars>>

\* Reg.Drain: one turn of `for j, s := range r.jobs`, starting a goroutine
DrainRange(j) ==
    /\ ~crashed
    /\ drainPc = "ranging"
    /\ j \in jobs \ ranged
    /\ ranged' = ranged \cup {j}
    /\ stopper' = [stopper EXCEPT ![j] = "waiting"]
    /\ bgRet' = NoBgRet
    /\ UNCHANGED <<drain, jobs, started, jobPc, drainPc, wg, crashed>>
    /\ UNCHANGED <<oneShotVars, diffVars, dnsVars, agentVars, adapterVars, namingVars, grpcVars, errVars, cdVars>>

\* Reg.Drain: the range is over, wg.Wait() begins
DrainRangeEnd ==
    /\ ~crashed
    /\ drainPc = "ranging"
    /\ jobs \subseteq ranged
    /\ drainPc' = "waiting"
    /\ bgRet' = NoBgRet
    /\ UNCHANGED <<drain, jobs, started, jobPc, ranged, stopper, wg, crashed>>
    /\ UNCHANGED <<oneShotVars, diffVars, dnsVars, agentVars, adapterVars, namingVars, grpcVars, errVars, cdVars>>

\* a variant of the goroutine of Drain that does not wait for the signal
StartedAnyway(j) == TRUE

\* the goroutine of Drain: `<-s.started` proceeds once the job's goroutine
\* has sent on the channel
Started(j) == ChanCanRecv(started[j])

\* the goroutine of Drain: <-s.started, j.Stop(), wg.Done()
StopperStop(j) ==
    /\ ~crashed
    /\ stopper[j] = "waiting"
    /\ Started(j)
    /\ started' = [started EXCEPT ![j] = ChanAfterRecv(started[j])]
    /\ stopper' = [stopper EXCEPT ![j] = "stopped"]
    /\ wg' = wg - 1
    /\ bgRet' = NoBgRet
    /\ UNCHANGED <<drain, jobs, jobPc, drainPc, ranged, crashed>>
    /\ UNCHANGED <<oneShotVars, diffVars, dnsVars, agentVars, adapterVars, namingVars, grpcVars, errVars, cdVars>>

\* Reg.Drain: wg.Wait() returns
DrainReturn ==
    /\ ~crashed
    /\ drainPc = "waiting"
    /\ wg = 0
    /\ drainPc' = "done"
    /\ bgRet' = NoBgRet
    /\ UNCHANGED <<drain, jobs, started, jobPc, ranged, stopper, wg, crashed>>
    /\ UNCHANGED <<oneShotVars, diffVars, dnsVars, agentVars, adapterVars, namingVars, grpcVars, errVars, cdVars>>

\* NewReg
BgInit ==
    /\ drain = FALSE
    /\ jobs = {}
    /\ started = [j \in Jobs |-> ChanMake]
    /\ jobPc = [j \in Jobs |-> "idle"]
    /\ drainPc = "idle"
    /\ ranged = {}
    /\ stopper = [j \in Jobs |-> "none"]
    /\ wg = 0
    /\ crashed = FALSE
    /\ bgRet = NoBgRet

BgNext ==
    \/ \E j \in Jobs : Dispatch(j)
    \/ \E j \in Jobs : JobSend(j)
    \/ \E j \in Jobs : JobStart(j)
    \/ \E j \in Jobs : JobReturn(j)
    \/ \E j \in Jobs : JobDeregister(j)
    \/ DrainCall
    \/ \E j \in Jobs : DrainRange(j)
    \/ DrainRangeEnd
    \/ \E j \in Jobs : StopperStop(j)
    \/ DrainReturn

\* the scheduler runs a goroutine that can run
BgFairness ==
    \A j \in Jobs : WF_vars(JobSend(j)) /\ WF_vars(JobStart(j))

----------------------------------------------------------------------------
(* The failures of package errors across the wire: grpcerrors.Pack and
   Unpack, httperrors.Pack *)

MaxViolations == 2

\* google.golang.org/grpc/codes
CodesOK == 0
CodesCanceled == 1
CodesUnknown == 2
CodesInvalidArgument == 3
CodesDeadlineExceeded == 4
CodesNotFound == 5
CodesAlreadyExists == 6
CodesPermissionDenied == 7
CodesResourceExhausted == 8
CodesFailedPrecondition == 9
CodesAborted == 10
CodesUnavailable == 14
CodesUnauthenticated == 16

\* net/http
StatusOK == 200
StatusBadRequest == 400
StatusUnauthorized == 401
StatusForbidden == 403
StatusNotFound == 404
StatusConflict == 409
StatusPreconditionFailed == 412
StatusTooManyRequests == 429
StatusInternalServerError == 500
StatusServiceUnavailable == 503
StatusGatewayTimeout == 504

RECURSIVE SeqsUpTo(_, _)
SeqsUpTo(S, n) ==
    IF n = 0 THEN {<<>>}
    ELSE SeqsUpTo(S, n - 1) \cup
         {Append(q, x) : q \in {y \in SeqsUpTo(S, n - 1) : Len(y) = n - 1}, x \in S}

NoParent == "nil"
Parents == {NoParent, "boom"}
FieldViolations == [Field : {"foo", "bar"}, Description : {"Missing data", "Too long"}]
PreconditionViolations == [Type : {"TOS"}, Subject : {"foo.app", "bar.app"},
                           Description : {"Terms of service not accepted"}]
QuotaViolations == [Subject : {"user:1", "user:2"}, Description : {"Daily limit"}]
ConflictViolations == [Resource : {"user:1", "user:2"}, Description : {"Stale"}]
RetryDelays == {0, 5}

\* an error value: nil, a failure of package errors, one of the two
\* errors of package context, or any other error
Failure(kind, parent, violations, retry) ==
    [kind |-> kind, parent |-> parent, Violations |-> violations, RetryDelay |-> retry]
NilError == Failure("nil", NoParent, <<>>, 0)
Canceled == Failure("context.Canceled", NoParent, <<>>, 0)
DeadlineExceeded == Failure("context.DeadlineExceeded", NoParent, <<>>, 0)
OtherErrors == {Failure("other", NoParent, <<>>, 0), Failure("other", "context.Canceled", <<>>, 0)}
PermissionDenied == Failure("PermissionFailure", NoParent, <<>>, 0)
Unauthenticated == Failure("AuthenticationFailure", NoParent, <<>>, 0)
NotFound == Failure("MissingFailure", NoParent, <<>>, 0)
WithBad(parent, violations) == Failure("BadRequest", parent, violations, 0)
Bad(violations) == WithBad(NoParent, violations)
WithFailedPrecondition(parent, violations) == Failure("PreconditionFailure", parent, violations, 0)
FailedPrecondition(violations) == WithFailedPrecondition(NoParent, violations)
WithAborted(parent, violations) == Failure("ConflictFailure", parent, violations, 0)
Aborted(violations) == WithAborted(NoParent, violations)
WithUnavailable(parent, retryDelay) == Failure("AvailabilityFailure", parent, <<>>, retryDelay)
Unavailable(retryDelay) == WithUnavailable(NoParent, retryDelay)
WithResourceExhausted(parent, violations) == Failure("QuotaFailure", parent, violations, 0)
ResourceExhausted(violations) == WithResourceExhausted(NoParent, violations)

FailureKinds == {"BadRequest", "PreconditionFailure", "QuotaFailure", "AvailabilityFailure",
                 "PermissionFailure", "AuthenticationFailure", "MissingFailure",
                 "ConflictFailure"}

ErrorValues ==
    {NilError, Canceled, DeadlineExceeded} \cup OtherErrors
    \cup {Failure(k, p, <<>>, 0) :
            k \in {"PermissionFailure", "AuthenticationFailure", "MissingFailure"}, p \in Parents}
    \cup {WithBad(p, v) : p \in Parents, v \in SeqsUpTo(FieldViolations, MaxViolations)}
    \cup {WithFailedPrecondition(p, v) :
            p \in Parents, v \in SeqsUpTo(PreconditionViolations, MaxViolations)}
    \cup {WithAborted(p, v) : p \in Parents, v \in SeqsUpTo(ConflictViolations, MaxViolations)}
    \cup {WithUnavailable(p, d) : p \in Parents, d \in RetryDelays}
    \cup {WithResourceExhausted(p, v) :
            p \in Parents, v \in SeqsUpTo(QuotaViolations, MaxViolations)}

\* status.New and Status.WithDetails; httperrors.New and Status.Details
NewStatus(code, details, ok) == [Code |-> code, Details |-> details, ok |-> ok]
NoStatus == [Code |-> -1, Details |-> <<>>, ok |-> FALSE]
NotUnpacked == Failure("", NoParent, <<>>, 0)

\* a variant that leaves the violations out of the detail
NoViolations(vs) == <<>>

\* pack: the loop that copies the violations into the detail
CopyViolations(vs) == [i \in 1..Len(vs) |-> vs[i]]

\* grpcerrors.pack
grpcPack(err) ==
    IF err = NilError THEN NewStatus(CodesOK, <<>>, TRUE)
    ELSE IF err = Canceled THEN NewStatus(CodesCanceled, <<>>, TRUE)
    ELSE IF err = DeadlineExceeded THEN NewStatus(CodesDeadlineExceeded, <<>>, TRUE)
    ELSE IF err.kind = "AvailabilityFailure"
    THEN NewStatus(CodesUnavailable,
                   <<[type |-> "RetryInfo", RetryDelay |-> err.RetryDelay]>>, TRUE)
    ELSE IF err.kind = "PermissionFailure" THEN NewStatus(CodesPermissionDenied, <<>>, TRUE)
    ELSE IF err.kind = "AuthenticationFailure" THEN NewStatus(CodesUnauthenticated, <<>>, TRUE)
    ELSE IF err.kind = "MissingFailure" THEN NewStatus(CodesNotFound, <<>>, TRUE)
    ELSE IF err.kind = "BadRequest"
    THEN NewStatus(CodesInvalidArgument,
                   <<[type |-> "BadRequest", Violations |-> CopyViolations(err.Violations)]>>, TRUE)
    ELSE IF err.kind = "PreconditionFailure"
    THEN NewStatus(CodesFailedPrecondition,
                   <<[type |-> "PreconditionFailure",
                      Violations |-> CopyViolations(err.Violations)]>>, TRUE)
    ELSE IF err.kind = "ConflictFailure" THEN NewStatus(CodesAborted, <<>>, TRUE)
    ELSE IF err.kind = "QuotaFailure"
    THEN NewStatus(CodesResourceExhausted,
                   <<[type |-> "QuotaFailure", Violations |-> CopyViolations(err.Violations)]>>, TRUE)
    ELSE NewStatus(CodesUnknown, <<>>, FALSE)

\* a variant of the switch that takes a failed precondition for a bad request
httpCodeBad(err) ==
    IF err.kind = "PreconditionFailure" THEN StatusBadRequest ELSE StatusInternalServerError

\* httperrors.pack: the status code of each case of the type switch
httpCode(err) ==
    IF err.kind = "AvailabilityFailure" THEN StatusServiceUnavailable
    ELSE IF err.kind = "PermissionFailure" THEN StatusForbidden
    ELSE IF err.kind = "AuthenticationFailure" THEN StatusUnauthorized
    ELSE IF err.kind = "MissingFailure" THEN StatusNotFound
    ELSE IF err.kind = "BadRequest" THEN StatusBadRequest
    ELSE IF err.kind = "PreconditionFailure" THEN StatusPreconditionFailed
    ELSE IF err.kind = "ConflictFailure" THEN StatusConflict
    ELSE IF err.kind = "QuotaFailure" THEN StatusTooManyRequests
    ELSE StatusInternalServerError

\* httperrors.pack
httpPack(err) ==
    IF err = NilError THEN NewStatus(StatusOK, <<>>, TRUE)
    ELSE IF err \in {Canceled, DeadlineExceeded} THEN NewStatus(StatusGatewayTimeout, <<>>, TRUE)
    ELSE IF err.kind \in {"BadRequest", "PreconditionFailure", "QuotaFailure"}
    THEN NewStatus(httpCode(err),
                   <<[type |-> err.kind, Violations |-> CopyViolations(err.Violations)]>>, TRUE)
    ELSE NewStatus(httpCode(err), <<>>, err.kind \in FailureKinds)

\* Unpack: `for _, d := range status.Details()`, the first detail of a type
FirstDetail(st, type) ==
    LET ix == {i \in 1..Len(st.Details) : st.Details[i].type = type}
    IN IF ix = {} THEN <<>>
       ELSE <<st.Details[CHOOSE i \in ix : \A k \in ix : i <= k]>>

\* Status.Err followed by grpcerrors.Unpack: the error of an OK status is
\* nil, that of any other status carries the status
Unpack(st) ==
    IF st.Code = CodesOK THEN NilError
    ELSE IF st.Code = CodesCanceled THEN Canceled
    ELSE IF st.Code = CodesInvalidArgument
    THEN LET d == FirstDetail(st, "BadRequest")
         IN IF d # <<>> THEN Bad(CopyViolations(d[1].Violations)) ELSE Bad(<<>>)
    ELSE IF st.Code = CodesDeadlineExceeded THEN DeadlineExceeded
    ELSE IF st.Code = CodesNotFound THEN NotFound
    ELSE IF st.Code = CodesAlreadyExists THEN Aborted(<<>>)
    ELSE IF st.Code = CodesPermissionDenied THEN PermissionDenied
    ELSE IF st.Code = CodesResourceExhausted
    THEN LET d == FirstDetail(st, "QuotaFailure")
         IN IF d # <<>> THEN ResourceExhausted(CopyViolations(d[1].Violations))
            ELSE ResourceExhausted(<<>>)
    ELSE IF st.Code = CodesFailedPrecondition
    THEN LET d == FirstDetail(st, "PreconditionFailure")
         IN IF d # <<>> THEN FailedPrecondition(CopyViolations(d[1].Violations))
            ELSE FailedPrecondition(<<>>)
    ELSE IF st.Code = CodesAborted THEN Aborted(<<>>)
    ELSE IF st.Code = CodesUnavailable
    THEN LET d == FirstDetail(st, "RetryInfo")
         IN IF d # <<>> THEN Unavailable(d[1].RetryDelay) ELSE Unavailable(0)
    ELSE IF st.Code = CodesUnauthenticated THEN Unauthenticated
    ELSE Failure("status", NoParent, <<>>, 0)

\* grpcerrors.Pack
GrpcPack(err) ==
    /\ erIn' = err
    /\ erGrpc' = grpcPack(err)
    /\ erHttp' = NoStatus
    /\ erOut' = NotUnpacked
    /\ UNCHANGED <<oneShotVars, diffVars, dnsVars, agentVars, adapterVars, namingVars, grpcVars, bgVars, cdVars>>

\* grpcerrors.Unpack of the error of the status that Pack returned
GrpcUnpack ==
    /\ erGrpc # NoStatus
    /\ erOut = NotUnpacked
    /\ erOut' = Unpack(erGrpc)
    /\ UNCHANGED <<erIn, erGrpc, erHttp>>
    /\ UNCHANGED <<oneShotVars, diffVars, dnsVars, agentVars, adapterVars, namingVars, grpcVars, bgVars, cdVars>>

\* httperrors.Pack
HttpPack(err) ==
    /\ erIn' = err
    /\ erHttp' = httpPack(err)
    /\ erGrpc' = NoStatus
    /\ erOut' = NotUnpacked
    /\ UNCHANGED <<oneShotVars, diffVars, dnsVars, agentVars, adapterVars, namingVars, grpcVars, bgVars, cdVars>>

ErrorsInit ==
    /\ erIn = NilError
    /\ erGrpc = NoStatus
    /\ erHttp = NoStatus
    /\ erOut = NotUnpacked

ErrorsNext ==
    \/ \E err \in ErrorValues : GrpcPack(err)
    \/ GrpcUnpack
    \/ \E err \in ErrorValues : HttpPack(err)

----------------------------------------------------------------------------
(* Diff.Apply called by concurrent goroutines on one Diff *)

Callers == {1, 2}
NoCaller == 0
CdInstances == {DiffInstance("a", "10.0.0.1"), DiffInstance("a", "10.0.0.2"),
                DiffInstance("b", "10.0.0.1")}
\* the states the callers hand to Apply
CdStates == {<<>>} \cup {<<i>> : i \in CdInstances} \cup {<<i, j>> : i, j \in CdInstances}
IdleCaller == [pc |-> "idle", state |-> <<>>, rest |-> <<>>, events |-> <<>>, pre |-> EmptyMap]
NoCdRet == [p |-> NoCaller, state |-> <<>>, events |-> <<>>, pre |-> EmptyMap, m |-> EmptyMap]

\* a variant of the lock that lets every caller in
MutexIgnored == TRUE

\* d.mu.Lock() goes through when no caller holds the mutex
MutexFree == cdMu = NoCaller

\* a goroutine calls Apply(state) and reaches d.mu.Lock()
CdCall(p, state) ==
    /\ cdProc[p].pc = "idle"
    /\ cdProc' = [cdProc EXCEPT ![p] = [IdleCaller EXCEPT !.pc = "lock", !.state = state]]
    /\ cdRet' = NoCdRet
    /\ UNCHANGED <<cdMu, cdM>>
    /\ UNCHANGED <<oneShotVars, diffVars, dnsVars, agentVars, adapterVars, namingVars, grpcVars, bgVars, errVars>>

\* d.mu.Lock() returns
CdLock(p) ==
    /\ cdProc[p].pc = "lock"
    /\ MutexFree
    /\ cdMu' = p
    /\ cdProc' = [cdProc EXCEPT ![p].pc = "scan", ![p].rest = cdProc[p].state, ![p].pre = cdM]
    /\ cdRet' = NoCdRet
    /\ UNCHANGED cdM
    /\ UNCHANGED <<oneShotVars, diffVars, dnsVars, agentVars, adapterVars, namingVars, grpcVars, bgVars, errVars>>

\* one turn of the first loop, or its end
CdScan(p) ==
    /\ cdProc[p].pc = "scan"
    /\ IF cdProc[p].rest = <<>>
       THEN /\ cdProc' = [cdProc EXCEPT ![p].pc = "sweep"]
            /\ UNCHANGED cdM
       ELSE LET inst == Head(cdProc[p].rest)
            IN /\ cdProc' = [cdProc EXCEPT ![p].rest = Tail(@),
                                             ![p].events = @ \o ApplyEvent(cdM, inst)]
               /\ cdM' = MapPut(cdM, inst.ID, inst)
    /\ cdRet' = NoCdRet
    /\ UNCHANGED cdMu
    /\ UNCHANGED <<oneShotVars, diffVars, dnsVars, agentVars, adapterVars, namingVars, grpcVars, bgVars, errVars>>

\* one turn of the second loop that finds an instance no longer running
CdSweep(p) ==
    /\ cdProc[p].pc = "sweep"
    /\ \E k \in Stale(cdM, Running(cdProc[p].state)) :
         /\ cdM' = MapDel(cdM, k)
         /\ cdProc' = [cdProc EXCEPT ![p].events = Append(@, Event(Delete, cdM[k]))]
    /\ cdRet' = NoCdRet
    /\ UNCHANGED cdMu
    /\ UNCHANGED <<oneShotVars, diffVars, dnsVars, agentVars, adapterVars, namingVars, grpcVars, bgVars, errVars>>

\* the second loop is over: the deferred d.mu.Unlock() runs, Apply returns
CdReturn(p) ==
    /\ cdProc[p].pc = "sweep"
    /\ Stale(cdM, Running(cdProc[p].state)) = {}
    /\ cdRet' = [p |-> p, state |-> cdProc[p].state, events |-> cdProc[p].events,
                 pre |-> cdProc[p].pre, m |-> cdM]
    /\ cdProc' = [cdProc EXCEPT ![p] = IdleCaller]
    /\ cdMu' = NoCaller
    /\ UNCHANGED cdM
    /\ UNCHANGED <<oneShotVars, diffVars, dnsVars, agentVars, adapterVars, namingVars, grpcVars, bgVars, errVars>>

CdInit ==
    /\ cdMu = NoCaller
    /\ cdM = EmptyMap
    /\ cdProc = [p \in Callers |-> IdleCaller]
    /\ cdRet = NoCdRet

CdNext ==
    \/ \E p \in Callers : \E state \in CdStates : CdCall(p, state)
    \/ \E p \in Callers : CdLock(p)
    \/ \E p \in Callers : CdScan(p)
    \/ \E p \in Callers : CdSweep(p)
    \/ \E p \in Callers : CdReturn(p)

----------------------------------------------------------------------------
Init ==
    /\ OneShotInit
    /\ DiffInit
    /\ DnsInit
    /\ AgentInit
    /\ AdapterInit
    /\ NamingInit
    /\ GrpcInit
    /\ BgInit
    /\ ErrorsInit
    /\ CdInit

SpecOneShot == Init /\ [][OneShotNext]_vars
SpecDiff == Init /\ [][DiffNext]_vars
SpecDNS == Init /\ [][DnsNext]_vars
\* the clock runs, and a goroutine inside dnsWatcher.Next takes a ready case
\* of its select
DnsFairness ==
    /\ WF_vars(TimerTick)
    /\ WF_vars(TimerFire)
    /\ WF_vars(DnsSelectTimer \/ DnsSelectDone)
SpecDNSFair == SpecDNS /\ DnsFairness
SpecAgent == Init /\ [][AgentNext]_vars
SpecAdapter == Init /\ [][AdapterNext]_vars
SpecNaming == Init /\ [][NamingNext]_vars
SpecGrpc == Init /\ [][GrpcNextStep]_vars
SpecBg == Init /\ [][BgNext]_vars
SpecBgFair == SpecBg /\ BgFairness
\* Drain itself keeps running too: its range, the goroutines it starts, where
\* every job's Stop returns, and its wg.Wait()
DrainFairness ==
    /\ \A j \in Jobs : WF_vars(DrainRange(j)) /\ WF_vars(StopperStop(j))
    /\ WF_vars(DrainRangeEnd)
    /\ WF_vars(DrainReturn)
SpecBgDrainFair == SpecBg /\ BgFairness /\ DrainFairness
SpecErrors == Init /\ [][ErrorsNext]_vars
SpecConcurrentDiff == Init /\ [][CdNext]_vars

----------------------------------------------------------------------------
(* C7: Diff.Apply on a state with distinct IDs returns exactly one event per
   ID of the previous or the current state: Add for an ID only in the current
   state, Update for an ID in both (whether or not the instance changed),
   Delete, carrying the stored instance, for an ID only in the previous one. *)
DistinctIDs(state) == \A i, j \in 1..Len(state) : state[i].ID = state[j].ID => i = j
InstanceOf(state, id) == state[CHOOSE i \in 1..Len(state) : state[i].ID = id]
EventsFor(events, id) == {i \in 1..Len(events) : events[i].Instance.ID = id}
DiffApplyExact ==
    [][DistinctIDs(dArg') =>
        LET P == DOMAIN dm
            C == Running(dArg')
        IN /\ Len(dEvents') = Cardinality(P \cup C)
           /\ \A id \in P \cup C :
                /\ Cardinality(EventsFor(dEvents', id)) = 1
                /\ LET e == dEvents'[CHOOSE i \in EventsFor(dEvents', id) : TRUE]
                   IN /\ id \in C \ P => e = Event(Add, InstanceOf(dArg', id))
                      /\ id \in C \cap P => e = Event(Update, InstanceOf(dArg', id))
                      /\ id \in P \ C => e = Event(Delete, dm[id])]_diffVars

\* previous {a,b}, current {b,c}: Delete(a), Update(b) of an unchanged b, Add(c)
DiffApplyWitness ==
    /\ Running(dArg) = {"b", "c"}
    /\ Len(dEvents) = 3
    /\ \E i, j, k \in 1..3 :
         /\ dEvents[i] = Event(Delete, DiffInstance("a", "10.0.0.1"))
         /\ dEvents[j] = Event(Update, DiffInstance("b", "10.0.0.1"))
         /\ dEvents[k] = Event(Add, DiffInstance("c", "10.0.0.2"))

----------------------------------------------------------------------------
(* C5: in every poll of the DNS watcher, with P the stored previous address
   set and N the new candidate set, the delta holds exactly one Add per
   address of N \ P, exactly one Delete per address of P \ N, nothing for an
   address of both, and no address twice. *)
UpdatesFor(delta, a) == {i \in 1..Len(delta) : delta[i].Addr = a}
DnsDeltaExact ==
    [][(dnsPc = "lookup" /\ dnsPc' # "lookup") =>
        LET P == DOMAIN curAddrs.m
            N == DOMAIN curAddrs'.m
            delta == IF dnsPc' = "idle" THEN dnsRet'.upd ELSE <<>>
        IN /\ Len(delta) = Cardinality(N \ P) + Cardinality(P \ N)
           /\ \A a \in N \ P :
                /\ Cardinality(UpdatesFor(delta, a)) = 1
                /\ \A i \in UpdatesFor(delta, a) : delta[i].Op = Add
           /\ \A a \in P \ N :
                /\ Cardinality(UpdatesFor(delta, a)) = 1
                /\ \A i \in UpdatesFor(delta, a) : delta[i].Op = Delete
           /\ \A a \in P \cap N : UpdatesFor(delta, a) = {}]_dnsVars

\* previous {10.0.0.1:80, 10.0.0.2:80}, new {10.0.0.2:80, [::1]:80}: the delta
\* is one Delete and one Add, and 10.0.0.2:80 is not announced again
DnsDeltaWitness ==
    /\ dnsPc = "idle"
    /\ DOMAIN curAddrs.m = {"10.0.0.2:80", "[::1]:80"}
    /\ dnsRet = OkRet(<<[Op |-> Delete, Addr |-> "10.0.0.1:80"],
                        [Op |-> Add, Addr |-> "[::1]:80"]>>)

(* C6: in a DNS poll, if the SRV lookup fails or returns zero records the
   candidate set is the direct lookup of the host, each resolved IP with the
   target's port; the SRV-derived set is used only when SRV returned at
   least one record. *)
DnsSrvFallback ==
    [][\A ans \in DnsAnswers : DnsLookup(ans) =>
        IF ans.srv.err \/ ans.srv.recs = {}
        THEN DOMAIN curAddrs'.m = DOMAIN lookupHost(ans, dnsW.port).m
        ELSE DOMAIN curAddrs'.m = DOMAIN lookupSRV(ans).m]_dnsVars

(* C2: once Close has been called or the parent scope is cancelled, every
   Next of the polling DNS watcher that is blocked or starts afterwards
   returns ErrWatcherClosed and no updates. *)
DnsClosedAfterCancel ==
    [][(ctxDone /\ dnsPc # "idle" /\ dnsPc' = "idle") => dnsRet' = ClosedRet]_dnsVars

----------------------------------------------------------------------------
(* C3: on a one-shot watcher (passthrough or IP literal), every Next made
   after Close has returned yields ErrWatcherClosed and no update, whether
   or not Next was called before Close. *)
OneShotNextAfterClose ==
    [][/\ (pt.updateChan.closed /\ PtNext) => ptRet' = ClosedRet
       /\ (ip.updateChan.closed /\ IpNext) => ipRet' = ClosedRet]_oneShotVars

(* C4: no watcher panics, however many times Close is called on it. *)
CloseTwiceNoPanic ==
    /\ ~pt.panic
    /\ ~ip.panic
    /\ \A w \in Watchers : ~lw[w].panic

----------------------------------------------------------------------------
(* C1: with an instance of service S registered, the watcher that
   Service(S).Watch() returns has the current membership ready: its first
   Next returns one Add event for the instance without waiting for a
   further Register or Deregister. *)
LwFirstNextSnapshot ==
    [][\A w \in Watchers : (lw[w].st = "none" /\ lw'[w].st = "live") =>
        /\ ChanRecvOk(lw'[w].sub)
        /\ \E k \in DOMAIN Registry :
             /\ Registry[k].Name = svcH.name
             /\ Head(lw'[w].sub.buf) = Event(Add, Registry[k])]_agentVars

(* C8: a subscriber whose channel is full and that neither receives nor
   closes stalls the broadcast: the call stays in the broadcast loop with
   the lock held (unless it panics on another, closed channel), never gets
   past that subscriber, and no other call on the agent takes a step. *)
Stalled(w) ==
    /\ mu = "locked" /\ call.phase = "bcast"
    /\ w \in Subs /\ call.sent[w] = 0
    /\ ~ChanCanSend(lw[w].sub)
Untouched(w) == lw'[w].sub = lw[w].sub /\ w \in Subs'
StaysBlocked(w) ==
    /\ mu' = "locked"
    /\ call'.kind = call.kind /\ call'.id = call.id /\ call'.phase = "bcast"
    /\ call'.sent[w] = 0
    /\ Registry' = Registry /\ svcH' = svcH /\ agRet' = NoAgRet
StalledSubscriberBlocks ==
    [][\A w \in Watchers : (Stalled(w) /\ Untouched(w)) => (StaysBlocked(w) \/ agPanic')]_agentVars

\* a Register is at its send on a full channel, and the run may make more calls
StalledWitness ==
    /\ call.kind = "Register" /\ call.cur # NoW
    /\ Stalled(call.cur)
    /\ calls < MaxCalls

(* C8 as stated: with a subscriber whose channel is full, the next Register
   or Deregister, whatever its argument, ends up blocked in the broadcast
   with the lock held, and stays there. *)
StalledSubscriberBlocksEvery ==
    [][/\ \A w \in Watchers :
            (/\ w \in Subs /\ ~ChanCanSend(lw[w].sub) /\ Untouched(w)
             /\ (\E r \in Regs : Register(r)) \/ (\E id \in AgentIDs : Deregister(id)))
            => mu' = "locked"
       /\ \A w \in Watchers : (Stalled(w) /\ Untouched(w)) => StaysBlocked(w)]_agentVars

(* C9: when a Register returns successfully, the instance is stored under
   its ID with Local = TRUE, and every watcher subscribed when the call
   began (and still subscribed) was sent exactly one Add event carrying
   that instance; no watcher was sent more than one. *)
RegisterDelivers ==
    [][/\ (call.kind = "Register" /\ agRet'.op = "Register" /\ agRet'.err = NilErr) =>
            /\ agRet'.id = call.id
            /\ call.id \in DOMAIN Registry'
            /\ Registry'[call.id].Local /\ Registry'[call.id].ID = call.id
            /\ \A w \in call.start \cap Subs : call.sent[w] = 1
            /\ \A w \in Watchers : call.sent[w] <= 1
       /\ \A w \in Watchers :
            (call.kind = "Register" /\ call'.kind = "Register"
             /\ call'.sent[w] # call.sent[w]) =>
                /\ call'.sent[w] = call.sent[w] + 1
                /\ lw'[w].sub.buf = Append(lw[w].sub.buf, Event(Add, Registry[call.id]))]_agentVars

\* a Register has just returned with two watchers subscribed, and both channels
\* hold the Add event for the new instance
RegisterDeliversWitness ==
    /\ agRet.op = "Register" /\ agRet.err = NilErr
    /\ Subs = {1, 2}
    /\ \A w \in Subs : lw[w].sub.buf = <<Event(Add, Registry[agRet.id])>>

(* C10: Register with an ID that is in the catalogue returns an error and
   changes neither the catalogue nor the subscribers, and sends no event;
   no two catalogue entries share an ID. *)
RegisterDuplicate ==
    /\ [][\A r \in Regs : \A id \in RegisterIDs(r) :
            (id \in DOMAIN Registry /\ RegisterAs(r, id)) =>
                /\ agRet' = [op |-> "Register", id |-> "", err |-> ErrRegistered]
                /\ Registry' = Registry /\ Subs' = Subs /\ lw' = lw
                /\ mu' = mu /\ call' = call]_agentVars
    /\ [](\A k1, k2 \in DOMAIN Registry :
            Registry[k1].ID = Registry[k2].ID => k1 = k2)

\* a Register of a taken ID has just failed while a watcher is subscribed
RegisterDuplicateWitness ==
    /\ agRet = [op |-> "Register", id |-> "", err |-> ErrRegistered]
    /\ Subs # {}
    /\ "a" \in DOMAIN Registry /\ Registry["a"].Name = "S"

(* C11: Deregister of an ID that is not in the catalogue returns nil and
   changes nothing; Deregister of an ID that is in it removes exactly that
   entry, and by the time it returns every watcher subscribed throughout the
   call was sent exactly one Delete event carrying the removed instance. *)
DeregisterEffect ==
    [][/\ \A id \in AgentIDs : Deregister(id) =>
            IF id \in DOMAIN Registry
            THEN /\ Registry' = MapDel(Registry, id)
                 /\ call'.kind = "Deregister"
                 /\ call'.ev = Event(Delete, Registry[id])
            ELSE /\ agRet'.op = "Deregister" /\ agRet'.err = NilErr
                 /\ Registry' = Registry /\ Subs' = Subs /\ lw' = lw
                 /\ mu' = mu /\ call' = call
       /\ (call.kind = "Deregister" /\ call'.kind = "Deregister") =>
            /\ call'.ev = call.ev /\ Registry' = Registry
            /\ \A w \in Watchers : call'.sent[w] # call.sent[w] =>
                 /\ call'.sent[w] = call.sent[w] + 1
                 /\ lw'[w].sub.buf = Append(lw[w].sub.buf, call.ev)
       /\ (call.kind = "Deregister" /\ agRet'.op = "Deregister") =>
            /\ agRet'.err = NilErr
            /\ Registry' = Registry /\ call.id \notin DOMAIN Registry'
            /\ \A w \in call.start \cap Subs : call.sent[w] = 1
            /\ \A w \in Watchers : call.sent[w] <= 1]_agentVars

\* a Deregister of "a" has just returned with two watchers subscribed, and
\* both channels hold the Delete event for the removed instance
DeregisterEffectWitness ==
    /\ agRet.op = "Deregister" /\ agRet.err = NilErr
    /\ Subs = {1, 2}
    /\ "a" \notin DOMAIN Registry
    /\ \A w \in Subs :
         /\ Len(lw[w].sub.buf) = 1
         /\ lw[w].sub.buf[1].Op = Delete
         /\ lw[w].sub.buf[1].Instance.ID = "a"

(* C12: Leave removes the registered instances one at a time and sends the
   Delete event of each to every watcher subscribed throughout that
   broadcast; when Leave returns the catalogue and the subscriber set are
   empty; a watcher that is no longer subscribed is never sent an event
   again, so a later Register delivers nothing to a watcher made before
   Leave. *)
LeaveEffect ==
    [][/\ (call.kind = "Leave" /\ call.phase = "range" /\ call'.phase = "bcast") =>
            \E id \in DOMAIN Registry :
                /\ Registry' = MapDel(Registry, id)
                /\ call'.ev = Event(Delete, Registry[id])
                /\ call'.start = Subs
       /\ (call.kind = "Leave" /\ call.phase = "bcast" /\ call'.kind = "Leave") =>
            /\ Registry' = Registry
            /\ \A w \in Watchers : call'.sent[w] # call.sent[w] =>
                 /\ call'.sent[w] = call.sent[w] + 1
                 /\ lw'[w].sub.buf = Append(lw[w].sub.buf, call.ev)
       /\ (call.kind = "Leave" /\ call.phase = "bcast" /\ call'.phase = "range") =>
            /\ \A w \in call.start \cap Subs : call.sent[w] = 1
            /\ \A w \in Watchers : call.sent[w] <= 1
       /\ agRet'.op = "Leave" =>
            /\ call.kind = "Leave"
            /\ DOMAIN Registry = {} /\ DOMAIN Registry' = {}
            /\ Subs' = {}
       /\ \A w \in Watchers :
            (lw[w].st = "live" /\ w \notin Subs /\ call.cur # w) =>
                /\ \/ lw'[w].sub.buf = lw[w].sub.buf
                   \/ lw[w].sub.buf # <<>> /\ lw'[w].sub.buf = Tail(lw[w].sub.buf)
                /\ w \notin Subs']_agentVars

\* a Register has returned after a Leave: the watcher made before the Leave is
\* open, unsubscribed, and holds the Delete event of the Leave only
LeaveEffectWitness ==
    /\ agRet.op = "Register" /\ agRet.err = NilErr
    /\ lw[1].st = "live" /\ 1 \notin Subs
    /\ ~lw[1].closing /\ ~lw[1].sub.closed
    /\ Len(lw[1].sub.buf) = 1
    /\ lw[1].sub.buf[1].Op = Delete

----------------------------------------------------------------------------
(* C13: when the adapter is handed one Update event that moves an instance
   it knows from address A (the address the back end held for it) to B, its
   Next returns exactly Delete(A), Add(B), in that order. *)
AdOneEvent(op, id) ==
    /\ Len(adEvents') = 1
    /\ adEvents'[1].Op = op
    /\ adEvents'[1].Instance.ID = id
AdAddressChange ==
    [][\A id \in AdIDs :
        (/\ AdOneEvent(Update, id)
         /\ id \in DOMAIN adInstances.m
         /\ Addr(adSrc[id]) # Addr(adEvents'[1].Instance)) =>
            adRet' = OkRet(<<[Op |-> Delete, Addr |-> Addr(adSrc[id])],
                             [Op |-> Add, Addr |-> Addr(adEvents'[1].Instance)]>>)]_adapterVars

(* C14: an Update event for a cached instance whose address equals the
   address of the cached instance produces no address update and leaves the
   cache as it is. *)
AdUnchangedSuppressed ==
    [][\A id \in AdIDs :
        (/\ AdOneEvent(Update, id)
         /\ id \in DOMAIN adInstances.m
         /\ Addr(adInstances.m[id]) = Addr(adEvents'[1].Instance)) =>
            /\ adRet' = OkRet(<<>>)
            /\ adInstances'.m = adInstances.m]_adapterVars

\* the last Next was handed one Update for a cached instance at the cached
\* address, and returned no update
AdUnchangedWitness ==
    /\ Len(adEvents) = 1 /\ adEvents[1].Op = Update
    /\ adEvents[1].Instance.ID \in DOMAIN adInstances.m
    /\ Addr(adInstances.m[adEvents[1].Instance.ID]) = Addr(adEvents[1].Instance)
    /\ adRet = OkRet(<<>>)

(* C15: a Delete event for an instance makes the adapter return exactly one
   Delete update, at the address it last announced for that ID by an Add,
   and drop the ID from its cache. *)
AdDeleteLastKnown ==
    [][\A id \in AdIDs :
        (AdOneEvent(Delete, id) /\ id \in DOMAIN adKnown) =>
            /\ adRet' = OkRet(<<[Op |-> Delete, Addr |-> adKnown[id]]>>)
            /\ id \notin DOMAIN adInstances'.m]_adapterVars

(* C16: no watcher's Next returns a nil error with an empty update list. *)
NextNeverEmpty ==
    /\ adRet.err = NilErr => adRet.upd # <<>>
    /\ dnsRet.err = NilErr => dnsRet.upd # <<>>
    /\ ptRet.err = NilErr => ptRet.upd # <<>>
    /\ ipRet.err = NilErr => ipRet.upd # <<>>
    /\ lwRet.err = NilErr => lwRet.events # <<>>

----------------------------------------------------------------------------
(* C17: the first Next of a DNS watcher that returns updates returns Add
   updates only, exactly one for each address of the candidate set of the
   poll that produced them, whether or not empty polls came before. *)
DnsFirstSnapshot ==
    [][(dnsPc = "lookup" /\ dnsPc' = "idle" /\ dnsHist.returns = "none") =>
        /\ dnsRet'.err = NilErr
        /\ \A i \in 1..Len(dnsRet'.upd) : dnsRet'.upd[i].Op = Add
        /\ {dnsRet'.upd[i].Addr : i \in 1..Len(dnsRet'.upd)} = DOMAIN curAddrs'.m
        /\ Len(dnsRet'.upd) = Cardinality(DOMAIN curAddrs'.m)
        /\ Len(dnsRet'.upd) > 0]_dnsVars

\* the first return of updates came after an empty poll and holds two Adds
DnsFirstSnapshotWitness ==
    /\ dnsHist.empties /\ dnsHist.returns = "one"
    /\ dnsPc = "idle"
    /\ Len(dnsRet.upd) = 2
    /\ \A i \in 1..2 : dnsRet.upd[i].Op = Add

(* C18: Next of the DNS watcher returns no error but ErrWatcherClosed, and
   that only once the scope is done; every poll, failed or not, re-arms the
   timer with the poll interval and surfaces no error; a Next that is
   waiting polls again (or sees the scope done) once the timer has run. *)
DnsErrorsAbsorbed ==
    /\ [](/\ dnsRet.err \in {NoErr, NilErr, ErrWatcherClosed}
          /\ dnsRet.err = ErrWatcherClosed => ctxDone)
    /\ [][(dnsPc = "lookup" /\ dnsPc' # "lookup") =>
            /\ timer' = TimerSet(Freq)
            /\ dnsRet'.err \in {NoErr, NilErr}
            /\ curAddrs'.nil => dnsPc' = "select" \/ DOMAIN curAddrs.m # {}]_dnsVars
    /\ (dnsPc = "select") ~> (dnsPc # "select")

\* every lookup of a poll has just failed: Next waits, the timer is re-armed
\* with the poll interval, and no error was returned
DnsErrorsAbsorbedWitness ==
    /\ curAddrs.nil
    /\ dnsPc = "select"
    /\ timer = TimerSet(Freq)
    /\ dnsRet.err = NoErr
    /\ ~ctxDone

----------------------------------------------------------------------------
(* C19: a passthrough watcher is made holding one update, an Add of the
   target given to Resolve; nothing adds another; the first Next consumes
   and returns it; a Next with nothing buffered returns ErrWatcherClosed and
   can only proceed once the watcher is closed. *)
PtSingleUpdate ==
    /\ [][/\ \A t \in PtTargets : PtResolve(t) =>
               pt'.updateChan = [buf |-> <<[Op |-> Add, Addr |-> t]>>, closed |-> FALSE]
          /\ pt.st = "live" =>
               IF PtNext THEN pt'.updateChan.buf = <<>>
               ELSE pt'.updateChan.buf = pt.updateChan.buf
          /\ PtNext =>
               IF pt.updateChan.buf # <<>>
               THEN ptRet' = OkRet(pt.updateChan.buf)
               ELSE pt.updateChan.closed /\ ptRet' = ClosedRet]_oneShotVars
    /\ []((pt.st = "live" /\ pt.updateChan.buf = <<>> /\ ~pt.updateChan.closed)
            => ~ENABLED PtNext)

\* the first Next has returned the Add of the target; the watcher is open and
\* holds nothing more
PtSingleUpdateWitness ==
    /\ pt.st = "live" /\ ~pt.updateChan.closed
    /\ pt.updateChan.buf = <<>>
    /\ ptRet = OkRet(<<[Op |-> Add, Addr |-> "myservice"]>>)

----------------------------------------------------------------------------
(* C20: the service that Service(name, tags...) returns holds only
   instances that carry every requested tag. *)
ServiceTagFiltered ==
    [][\A name \in ServiceNames : \A tags \in TagSets :
        (Service(name, tags) /\ agRet'.err = NilErr) =>
            \A i \in 1..Len(svcH'.instances) :
                SeqToSet(tags) \subseteq SeqToSet(svcH'.instances[i].Tags)]_agentVars

----------------------------------------------------------------------------
(* C21: the service that Service(name) returns holds every registered
   instance of that name. *)
ServiceHoldsAll ==
    [][(agRet'.op = "Service" /\ agRet'.err = NilErr) =>
        SeqToSet(svcH'.instances) =
            {Registry[k] : k \in {x \in DOMAIN Registry : Registry[x].Name = svcH'.name}}]_agentVars

(* C22: a watcher made by the Watch of service S is sent events of
   instances of S only. *)
WatcherOwnService ==
    \A w \in Watchers : \A i \in 1..Len(lw[w].sub.buf) :
        lw[w].sub.buf[i].Instance.Name = lw[w].name

(* C23: Register panics on a nil builder and on a scheme already bound, and
   then the scheme table is as it was; any other Register binds the scheme
   to the builder and changes no other entry. *)
RegisterPanicsOrAdds ==
    [][\A name \in SchemeNames : \A r \in Builders :
        NamingRegister(name, r) =>
            IF r = NilBuilder \/ name \in DOMAIN builders
            THEN /\ nmRet'.panic \in {PanicNil, PanicDup}
                 /\ builders' = builders
            ELSE /\ nmRet'.panic = ""
                 /\ DOMAIN builders' = DOMAIN builders \cup {name}
                 /\ builders'[name] = r
                 /\ \A k \in DOMAIN builders : builders'[k] = builders[k]]_namingVars

RegisterPanicsWitness ==
    /\ nmRet.op = "Register"
    /\ nmRet.panic = PanicDup
    /\ builders["dns"] = "buildDNS"
    /\ "foo" \in DOMAIN builders

(* C24: a name without a scheme resolves, under every default scheme d, as
   d + "://" + name does: same builder, same parsed URI, same error. *)
DefaultSchemeEquivalence ==
    \A name \in URIs :
        (Parse(name).ok /\ Parse(name).Scheme = "") =>
            ResolveOutcome(builders, defaultScheme, name) =
                ResolveOutcome(builders, defaultScheme, defaultScheme \o <<":", "//">> \o name)

DefaultSchemeWitness ==
    /\ defaultScheme = <<"DNS">>
    /\ nmRet.op = "Resolve"
    /\ nmRet.built = "buildDNS"
    /\ nmRet.uri = <<"dns", ":", "//", "myservice", "/", "80">>

(* C25: Resolve of a URI whose scheme is bound to no builder returns an
   error that names the scheme, invokes no builder, does not panic and
   leaves the scheme table as it was. *)
UnknownSchemeError ==
    [][\A uri \in URIs :
        (NamingResolve(uri) /\ Parse(uri).ok /\ Parse(uri).Scheme # ""
            /\ Parse(uri).Scheme \notin DOMAIN builders) =>
            /\ nmRet'.err = ErrNotFound(Parse(uri).Scheme)
            /\ nmRet'.built = NoBuilder
            /\ nmRet'.panic = ""
            /\ builders' = builders]_namingVars

UnknownSchemeWitness ==
    /\ nmRet.op = "Resolve"
    /\ nmRet.err = ErrNotFound("myservice")
    /\ nmRet.built = NoBuilder

(* C26: the gRPC watcher's Next turns a batch of n Add and Delete updates
   into n updates of gRPC, in order, each with the operation, address and
   metadata of its original; an error of the wrapped Next comes back as it
   is with no update; a batch holding another operation gives an error and
   no update. *)
GrpcNextTranslates ==
    [][gwIn' # gwIn =>
        IF gwIn'.err # NilErr
        THEN gwRet' = [upd |-> <<>>, err |-> gwIn'.err]
        ELSE IF \A i \in 1..Len(gwIn'.upd) : gwIn'.upd[i].Op \in {Add, Delete}
        THEN /\ gwRet'.err = NilErr
             /\ Len(gwRet'.upd) = Len(gwIn'.upd)
             /\ \A i \in 1..Len(gwIn'.upd) :
                    /\ gwRet'.upd[i].Op =
                           (IF gwIn'.upd[i].Op = Add THEN GrpcAdd ELSE GrpcDelete)
                    /\ gwRet'.upd[i].Addr = gwIn'.upd[i].Addr
                    /\ gwRet'.upd[i].Metadata = gwIn'.upd[i].Metadata
        ELSE /\ gwRet'.err \notin {NilErr, NoErr}
             /\ gwRet'.upd = <<>>]_grpcVars

GrpcNextWitness ==
    /\ Len(gwIn.upd) = 2
    /\ gwIn.upd[1].Op = Delete /\ gwIn.upd[2].Op = Add
    /\ gwIn.upd[1].Metadata # gwIn.upd[2].Metadata
    /\ gwIn.upd[1].Addr # gwIn.upd[2].Addr
    /\ Len(gwRet.upd) = 2
    /\ gwRet.upd[1].Op = GrpcDelete

(* C27: every job that Dispatch accepted has its Start invoked eventually,
   a Drain right after the Dispatch notwithstanding. *)
DispatchedJobStarts ==
    \A j \in Jobs : (jobPc[j] = "spawned") ~> (jobPc[j] = "running")

(* C28: Dispatch while the registry drains returns ErrDrain, Dispatch of a
   registered job returns ErrDup; neither registers or starts the job, and
   the table of jobs is as it was. *)
DispatchRefuses ==
    [][\A j \in Jobs :
        (Dispatch(j) /\ (drain \/ j \in jobs)) =>
            /\ bgRet'.err = (IF drain THEN ErrDrain ELSE ErrDup)
            /\ jobs' = jobs
            /\ jobPc' = jobPc
            /\ started' = started]_bgVars

DispatchRefusesWitness ==
    /\ bgRet.op = "Dispatch"
    /\ bgRet.err = ErrDup
    /\ jobPc[bgRet.job] = "running"
    /\ ~drain

(* C29: Unpack of the error of the status that Pack made of a failure, or
   of context.Canceled or context.DeadlineExceeded, is an error of the
   same kind; a BadRequest keeps its field violations, in number, order,
   Field and Description. *)
PackUnpackKind ==
    (erOut # NotUnpacked /\ erIn.kind \in FailureKinds \cup {Canceled.kind, DeadlineExceeded.kind}) =>
        /\ erOut.kind = erIn.kind
        /\ erIn.kind = "BadRequest" =>
              /\ Len(erOut.Violations) = Len(erIn.Violations)
              /\ \A i \in 1..Len(erIn.Violations) :
                    /\ erOut.Violations[i].Field = erIn.Violations[i].Field
                    /\ erOut.Violations[i].Description = erIn.Violations[i].Description

PackUnpackWitness ==
    /\ erOut # NotUnpacked
    /\ erIn.kind = "BadRequest"
    /\ erIn.parent # NoParent
    /\ Len(erIn.Violations) = 2
    /\ erIn.Violations[1] # erIn.Violations[2]
    /\ erOut.Violations = erIn.Violations

\* the code that each Pack owes to each kind of error
GrpcDesignated(kind) ==
    CASE kind = "nil" -> 0
      [] kind = "BadRequest" -> 3
      [] kind = "MissingFailure" -> 5
      [] kind = "PermissionFailure" -> 7
      [] kind = "QuotaFailure" -> 8
      [] kind = "PreconditionFailure" -> 9
      [] kind = "ConflictFailure" -> 10
      [] kind = "AvailabilityFailure" -> 14
      [] kind = "AuthenticationFailure" -> 16
      [] OTHER -> 2

HttpDesignated(kind) ==
    CASE kind = "nil" -> 200
      [] kind = "BadRequest" -> 400
      [] kind = "AuthenticationFailure" -> 401
      [] kind = "PermissionFailure" -> 403
      [] kind = "MissingFailure" -> 404
      [] kind = "ConflictFailure" -> 409
      [] kind = "PreconditionFailure" -> 412
      [] kind = "QuotaFailure" -> 429
      [] kind = "AvailabilityFailure" -> 503
      [] OTHER -> 500

(* C30, as stated: Pack gives nil OK/200, each of the eight failure kinds
   its own code (PermissionFailure 7 in gRPC, PreconditionFailure 412 in
   HTTP), and any other error Unknown/500 with ok false, whatever the
   violations and the parent. *)
PackFixedStatus ==
    /\ erGrpc # NoStatus =>
          /\ erGrpc.Code = GrpcDesignated(erIn.kind)
          /\ erGrpc.ok = (erIn.kind \in FailureKinds \cup {"nil"})
    /\ erHttp # NoStatus =>
          /\ erHttp.Code = HttpDesignated(erIn.kind)
          /\ erHttp.ok = (erIn.kind \in FailureKinds \cup {"nil"})

(* C30, amended: as above, but context.Canceled and context.DeadlineExceeded
   are not among the other errors: gRPC gives them Canceled (1) and
   DeadlineExceeded (4), HTTP gives both 504, with ok true. *)
PackFixedStatusButContext ==
    /\ erGrpc # NoStatus =>
          IF erIn.kind = "context.Canceled" THEN erGrpc.Code = 1 /\ erGrpc.ok
          ELSE IF erIn.kind = "context.DeadlineExceeded" THEN erGrpc.Code = 4 /\ erGrpc.ok
          ELSE /\ erGrpc.Code = GrpcDesignated(erIn.kind)
               /\ erGrpc.ok = (erIn.kind \in FailureKinds \cup {"nil"})
    /\ erHttp # NoStatus =>
          IF erIn.kind \in {"context.Canceled", "context.DeadlineExceeded"}
          THEN erHttp.Code = 504 /\ erHttp.ok
          ELSE /\ erHttp.Code = HttpDesignated(erIn.kind)
               /\ erHttp.ok = (erIn.kind \in FailureKinds \cup {"nil"})

PackFixedStatusWitness ==
    /\ erIn.kind = "PreconditionFailure"
    /\ erIn.parent # NoParent
    /\ Len(erIn.Violations) = 2
    /\ erHttp.Code = 412
    /\ erHttp.ok

(* C31: under every interleaving of watcher Close with Register, Deregister,
   Leave and Watch, the subscriber set changes only in a step of the call
   that holds the agent's lock, and no broadcast sends on a closed channel. *)
CloseUnderLock ==
    /\ [](~agPanic)
    /\ [][Subs' # Subs => (mu = "locked" /\ call.kind = "Leave" /\ call'.kind = "none")]_agentVars

(* C32: the updates the adapter has returned so far, applied in order to an
   empty address set, give exactly the addresses of the instances the back
   end still holds. *)
AdAppliedIsLive ==
    adApplied = {Addr(adSrc[id]) : id \in DOMAIN adSrc}

(* C33: concurrent Apply calls on one Diff are serialised: at most one call
   is inside the loops at a time, and each call returns the events, and
   leaves the snapshot, that Apply run alone on the snapshot it found when
   it took the lock would. *)
ApplySerialised ==
    /\ Cardinality({p \in Callers : cdProc[p].pc \in {"scan", "sweep"}}) <= 1
    /\ cdRet.p # NoCaller =>
          LET scanned == ApplyScan(cdRet.pre, cdRet.state, <<>>)
              stale == Stale(scanned.m, Running(cdRet.state))
          IN \E order \in Perms(stale) :
                /\ cdRet.events = scanned.events \o
                       [i \in 1..Len(order) |-> Event(Delete, scanned.m[order[i]])]
                /\ cdRet.m = MapDelAll(scanned.m, order)

ApplySerialisedWitness ==
    /\ cdRet.p = 1
    /\ cdProc[2].pc = "lock"
    /\ Len(cdRet.events) = 3
    /\ cdRet.pre # EmptyMap

\* a poll of the DNS watcher completes: lookup, compileUpdate, store, Reset
DnsPolled == dnsPc = "lookup" /\ dnsPc' # "lookup"

(* C34: after every DNS poll the stored previous set is that poll's candidate
   set, with or without a delta, and the updates returned so far, applied in
   order to an empty set, give the candidate set of the most recent poll that
   ended a Next call. *)
DnsStoredIsCandidate ==
    /\ [](dnsHist.applied = dnsHist.endCand)
    /\ [][DnsPolled => DOMAIN curAddrs'.m = dnsHist'.cand]_dnsVars

DnsStoredIsCandidateWitness ==
    /\ dnsHist.returns = "more"
    /\ dnsPc = "select"
    /\ dnsHist.since = 0
    /\ Cardinality(dnsHist.applied) = 2
    /\ dnsHist.cand = dnsHist.applied

(* C35: the first poll of a fresh DNS watcher needs no waiting; every poll
   re-arms the timer with the configured interval, so each later poll, in the
   same Next call or in a later one, comes a full interval after the poll
   before it. *)
DnsPollsSpaced ==
    /\ [][(dnsW.st = "none" /\ dnsW'.st = "live") =>
              (timer'.run /\ timer'.left = 0)]_dnsVars
    /\ [][DnsPolled =>
              /\ IF dnsHist.returns = "none" /\ ~dnsHist.empties
                 THEN dnsHist.since = 0
                 ELSE dnsHist.since >= Freq
              /\ timer'.run /\ ~timer'.tick /\ timer'.left = Freq]_dnsVars

DnsPollsSpacedWitness ==
    /\ dnsHist.returns = "more"
    /\ dnsHist.empties
    /\ dnsPc = "idle"
    /\ dnsHist.since = 0
    /\ timer.left = Freq
    /\ dnsRet # NoRet

\* the updates of a return as a set, when no update occurs twice in it
AllOf(upd, op, addrs) ==
    /\ Len(upd) = Cardinality(addrs)
    /\ {upd[i] : i \in 1..Len(upd)} = {[Op |-> op, Addr |-> a] : a \in addrs}

(* C37: when both the SRV lookup and the host lookup of one DNS poll fail and
   the stored previous set is not empty, Next returns a Delete for every
   address known before and the stored set becomes empty; the next poll that
   succeeds announces every address it finds as Add. *)
DnsFailureDeletesAll ==
    /\ [][(DnsPolled /\ dnsHist'.failed /\ DOMAIN curAddrs.m # {}) =>
              /\ dnsPc' = "idle"
              /\ dnsRet'.err = NilErr
              /\ AllOf(dnsRet'.upd, Delete, DOMAIN curAddrs.m)
              /\ DOMAIN curAddrs'.m = {}]_dnsVars
    /\ [][(DnsPolled /\ dnsHist.failed /\ ~dnsHist'.failed /\ dnsHist'.cand # {}) =>
              /\ dnsPc' = "idle"
              /\ dnsRet'.err = NilErr
              /\ AllOf(dnsRet'.upd, Add, dnsHist'.cand)]_dnsVars

DnsFailureDeletesAllWitness ==
    /\ dnsHist.failed
    /\ dnsPc = "idle"
    /\ curAddrs.nil
    /\ Len(dnsRet.upd) = 2
    /\ \A i \in 1..Len(dnsRet.upd) : dnsRet.upd[i].Op = Delete
    /\ dnsHist.applied = {}
    /\ dnsHist.returns = "more"

\* the addresses a poll finds vanished
DnsGone == DOMAIN curAddrs.m \ DOMAIN curAddrs'.m

\* what a poll does to the stored records: the Deletes it returns are the
\* stored records of the vanished addresses with only Op changed, and of the
\* records the caller already holds only those are changed, only in Op
DnsRecordsFramed ==
    /\ {dnsRet'.upd[i] : i \in {j \in 1..Len(dnsRet'.upd) :
                                    dnsPc' = "idle" /\ dnsRet'.upd[j].Op = Delete}}
          = {[curAddrs.m[a] EXCEPT !.Op = Delete] : a \in DnsGone}
    /\ DOMAIN dnsHist'.old = dnsHist.handed
    /\ \A a \in dnsHist.handed :
          dnsHist'.old[a] = IF a \in DnsGone THEN [curAddrs.m[a] EXCEPT !.Op = Delete]
                            ELSE curAddrs.m[a]

(* C40, as stated: the Delete returned for a vanished address is the very
   record that an earlier poll stored and returned as Add, with Op changed in
   place; no other field of it and no record of an address still present is
   modified by a poll. *)
DnsDeleteIsReturnedAdd ==
    [][DnsPolled => (DnsGone \subseteq dnsHist.handed /\ DnsRecordsFramed)]_dnsVars

(* C40, amended: the Delete returned for a vanished address is the very record
   the previous poll stored for that address, with Op changed in place; it is
   the record returned as Add only when the address first appeared in that
   previous poll, and a record never returned before otherwise; no other field
   of it and no record of an address still present is modified by a poll. *)
DnsDeleteReusesStored ==
    [][DnsPolled =>
          /\ dnsHist'.reused = DnsGone \ dnsHist.handed
          /\ dnsHist'.handed = DOMAIN curAddrs'.m \ DOMAIN curAddrs.m
          /\ DnsRecordsFramed]_dnsVars

DnsDeleteReusesStoredWitness ==
    /\ dnsPc = "idle"
    /\ dnsHist.reused # {}
    /\ \E a \in DOMAIN dnsHist.old : dnsHist.old[a].Op = Delete
    /\ \E i \in 1..Len(dnsRet.upd) :
          dnsRet.upd[i].Op = Delete /\ dnsRet.upd[i].Addr \in dnsHist.reused

(* C36: Reg.Drain terminates: with every job's Stop returning, a Drain that
   has begun returns under every interleaving, also when a dispatched job
   finishes and deregisters itself while Drain is in progress (a run the
   runtime ends for the unsynchronised map access is not held against it). *)
DrainTerminates ==
    (drainPc = "ranging") ~> (drainPc = "done" \/ crashed)

(* C39: Drain invokes a job's Stop as soon as the job's goroutine has
   signalled on started, which it does before it calls Start: Stop never comes
   before that signal, and in some interleaving of Dispatch followed by Drain
   it comes before Start. *)
StopOnlyAfterSignal ==
    \A j \in Jobs : stopper[j] = "stopped" => jobPc[j] # "spawned"

StopBeforeStart ==
    \E j \in Jobs :
        /\ stopper[j] = "stopped"
        /\ jobPc[j] = "sent"
        /\ drain
        /\ j \in jobs

(* C38: once the agent's Leave has returned, Next on a watcher created before
   it does not block forever: the watcher's channel is closed, so that Next
   hands out what is buffered and then the closed error. *)
LeaveEndsWatchers ==
    (agRet.op = "Leave" /\ agRet.err = NilErr) =>
        \A w \in Watchers :
            (lw[w].st = "live" /\ ~lw[w].closing) => lw[w].sub.closed

=============================================================================
